---- MODULE Spec2Model ----
(***************************************************************************)
(* A model of the HyperFleet ephemeral-VM lifecycle subsystem:             *)
(*   - the bootstrap agent's archive extraction                            *)
(*     (src/cmd/bootstrap-service/main.go, downloadGitHubRunner),          *)
(*   - the MachineClaim reconciliation engine and its VM state monitor     *)
(*     (src/.kiro/specs/hyperfleet-operator/design.md, the Go listings of  *)
(*     MachineClaimReconciler and ProxmoxProvider): the runs of Reconcile  *)
(*     started by the controller's workers and by the monitor, one step    *)
(*     per call to the API server or the hypervisor (SpecEngine), and the  *)
(*     same with passes of reconcileOrphanedVMs (SpecOrphans),             *)
(*   - the bootstrap agent's process from main to its exit                 *)
(*     (src/cmd/bootstrap-service/main.go, Run, cleanup, shutdownVM),      *)
(*   - the HypervisorCluster and HypervisorMachineTemplate controllers     *)
(*     (src/cmd/bootstrap-service/test-runner.sh and                       *)
(*     src/internal/controller/hypervisorcluster_controller_test.go, which *)
(*     hold the two reconcilers): one run of each Reconcile at a time, one *)
(*     step per call to the API server or the hypervisor (SpecInfra),      *)
(*   - the agent's process composed with its download step (SpecPipeline). *)
(* Each subsystem has its own specification over the module's variables;   *)
(* a specification leaves the other subsystem's variables at their initial *)
(* values.                                                                 *)
(***************************************************************************)
EXTENDS Integers, Sequences, FiniteSets, TLC

VARIABLES
    \* ---- bootstrap agent: downloadGitHubRunner ----
    exInstall,      \* config.Runner.InstallPath as configured (a raw path)
    exStage,        \* "start" | "extracting" | "ok" | "error"
    exErr,          \* the error downloadGitHubRunner returned ("" = none)
    exCount,        \* tar entries read so far
    exTarget,       \* targetPath of the entry read last (NoPath before the first)
    exType,         \* header.Typeflag of the entry read last ("none" before the first)
    exDirs,         \* directories created by MkdirAll under/after the install dir
    exFiles,        \* files created by OpenFile(O_CREATE)
    \* ---- reconciliation engine ----
    claim,          \* the MachineClaim records of the declarative store
    vm,             \* the VM objects of the hypervisor, with their ownership tags
    queue,          \* claims waiting in the engine's work queue
    requeueAfter,   \* per claim: minutes of the RequeueAfter in the Result that the
                    \* last run of Reconcile returned (0 = none)
    faults,         \* transient failures injected so far
    deleteCalls,    \* per VM: DeleteVM calls issued so far (counted up to
                    \* MaxDeleteCalls)
    denied,         \* claims for which ValidateVMOwnership has reported a mismatch
    running,        \* runs of Reconcile in progress, each with its position
    listing,        \* reconcileVMStates: per claim the VM reference of its listed
                    \* record, while the loop has still to visit it (0 = not)
    orphan,         \* reconcileOrphanedVMs: the listed VMs still to handle, the
                    \* VM that deleteVM is about to validate and the VM that it
                    \* has validated and is about to delete
    \* ---- bootstrap agent: main, Run, cleanup, shutdownVM ----
    agPc,           \* the call the agent's process makes next
    agTrace,        \* the calls it has made so far, each with its result
    agCmd,          \* shutdownViaCommand: index of the command tried next
    agLastErr,      \* shutdownViaCommand: lastErr (0 = nil, i = error of command i)
    agShutErr,      \* the error shutdownVM returned
    agErr,          \* the error Run returned, or the message of log.Fatalf
    agExit,         \* "running" | "exit 0" | "exit 1"
    agDirs,         \* of the install and work directories, those still on disk
    agPowerOff,     \* a shutdown strategy succeeded: the VM powers off
    agCfg,          \* the RunnerConfig that loadRunnerConfig reads
    \* ---- HypervisorCluster and HypervisorMachineTemplate controllers ----
    cluster,        \* the HypervisorCluster record of the store
    template,       \* the HypervisorMachineTemplate record of the store
    clusterRun,     \* the run of HypervisorClusterReconciler.Reconcile in progress
    templateRun,    \* the run of HypervisorMachineTemplateReconciler.Reconcile in
                    \* progress
    infRun,         \* what the latest run of either Reconcile that returned did
                    \* and returned
    clDelays        \* RequeueAfter of the latest consecutive runs of the cluster's
                    \* Reconcile whose connection test failed (the last two)

exVars == <<exInstall, exStage, exErr, exCount, exTarget, exType, exDirs, exFiles>>

history == <<deleteCalls, denied>>

engVars == <<claim, vm, queue, requeueAfter, faults, history, running, listing, orphan>>

agVars == <<agPc, agTrace, agCmd, agLastErr, agShutErr, agErr, agExit, agDirs, agPowerOff,
           agCfg>>

infVars == <<cluster, template, clusterRun, templateRun, infRun, clDelays>>

\* what a step of the engine leaves alone
restVars == <<exVars, agVars, infVars>>

vars == <<exInstall, exStage, exErr, exCount, exTarget, exType, exDirs, exFiles,
          claim, vm, queue, requeueAfter, faults,
          deleteCalls, denied, running, listing, orphan,
          agPc, agTrace, agCmd, agLastErr, agShutErr, agErr, agExit, agDirs, agPowerOff,
          agCfg, cluster, template, clusterRun, templateRun, infRun, clDelays>>

(***************************************************************************)
(* Bounds of the model.                                                    *)
(***************************************************************************)
MaxDepth == 2       \* components in a tar entry name
MaxEntries == 2     \* tar entries read from one archive
NumClaims == 1      \* MachineClaim records
MaxVMs == 2         \* VM ids the hypervisor hands out
MaxFaults == 1      \* transient failures of the provider or the API server
MaxDeleteCalls == 2 \* DeleteVM calls counted per VM

(***************************************************************************)
(* Paths.  A path is [abs, comps]: a rooted flag and its components.  A    *)
(* raw tar entry name also records a trailing slash, since the code        *)
(* compares header.Name with "./" as a string.                             *)
(***************************************************************************)
Seg == {"a", ".."}

SeqsUpTo(S, n) == UNION {[1..k -> S] : k \in 0..n}

Last(s) == s[Len(s)]

Front(s) == SubSeq(s, 1, Len(s) - 1)

NoPath == [abs |-> FALSE, comps |-> <<"?">>]

\* filepath.Clean on the components: "." dropped, ".." backs up one
\* component, is dropped at the root and is kept at the head of a relative path.
RECURSIVE CleanComps(_, _, _)
CleanComps(abs, in, out) ==
    IF in = <<>> THEN out
    ELSE LET h == Head(in)
             t == Tail(in)
         IN  IF h = "." THEN CleanComps(abs, t, out)
             ELSE IF h = ".."
                  THEN IF out # <<>> /\ Last(out) # ".."
                       THEN CleanComps(abs, t, Front(out))
                       ELSE IF abs THEN CleanComps(abs, t, out)
                                   ELSE CleanComps(abs, t, Append(out, ".."))
                  ELSE CleanComps(abs, t, Append(out, h))

Clean(p) == [abs |-> p.abs, comps |-> CleanComps(p.abs, p.comps, <<>>)]

\* filepath.Join(installPath, header.Name): the elements joined by a
\* separator, then cleaned; a leading "/" of the second element is absorbed.
Join(base, name) == Clean([abs |-> base.abs, comps |-> base.comps \o name.comps])

\* filepath.Dir of a cleaned path.
Dir(p) == IF p.comps = <<>> THEN p ELSE [abs |-> p.abs, comps |-> Front(p.comps)]

\* The string of a cleaned path, as tokens: "/" for a separator, "." for the
\* empty relative path.
RECURSIVE Interleave(_)
Interleave(cs) ==
    IF cs = <<>> THEN <<>>
    ELSE IF Len(cs) = 1 THEN <<cs[1]>>
    ELSE <<cs[1], "/">> \o Interleave(Tail(cs))

Render(p) ==
    IF p.abs THEN <<"/">> \o Interleave(p.comps)
    ELSE IF p.comps = <<>> THEN <<".">>
    ELSE Interleave(p.comps)

\* strings.HasPrefix
HasPrefix(s, prefix) ==
    /\ Len(prefix) <= Len(s)
    /\ SubSeq(s, 1, Len(prefix)) = prefix

\* header.Name == "./"
IsDotSlash(name) == ~name.abs /\ name.comps = <<".">> /\ name.slash

\* the empty string
EmptyPath == [abs |-> FALSE, comps |-> <<>>]

DefaultInstallPath == [abs |-> TRUE, comps |-> <<"opt", "actions-runner">>]

\* installPath := gb.config.Runner.InstallPath; if "" then DefaultInstallPath
installPathOf(cfg) == IF cfg = EmptyPath THEN DefaultInstallPath ELSE cfg

\* The security check of the extraction loop: TRUE when the entry is let through.
PathCheck(installPath, name) ==
    \/ IsDotSlash(name)
    \/ HasPrefix(Render(Join(installPath, name)),
                 Render(Clean(installPath)) \o <<"/">>)

(***************************************************************************)
(* The file system the agent writes to.                                    *)
(***************************************************************************)
\* p and its ancestors.
PrefixesOf(p) == {[abs |-> p.abs, comps |-> SubSeq(p.comps, 1, k)] : k \in 0..Len(p.comps)}

AllDotDot(p) == \A i \in 1..Len(p.comps) : p.comps[i] = ".."

\* Directories that exist before the loop: the install directory and its
\* ancestors (MkdirAll(installPath) succeeded), and every directory above the
\* working directory.
PreExisting(install, p) == p \in PrefixesOf(Clean(install)) \/ (~p.abs /\ AllDotDot(p))

IsDirectory(install, dirs, p) == p \in dirs \/ PreExisting(install, p)

\* os.MkdirAll fails when a regular file is in the way.
MkdirAllBlocked(files, p) == PrefixesOf(p) \cap files # {}

NewDirs(install, dirs, p) == {d \in PrefixesOf(p) : ~IsDirectory(install, dirs, d)}

\* p is the install directory or lies below it.
Inside(install, p) ==
    LET base == Clean(install)
    IN  /\ p.abs = base.abs
        /\ Len(base.comps) <= Len(p.comps)
        /\ SubSeq(p.comps, 1, Len(base.comps)) = base.comps
        /\ \A i \in (Len(base.comps) + 1)..Len(p.comps) : p.comps[i] # ".."

(***************************************************************************)
(* Inputs of the extraction.                                               *)
(***************************************************************************)
EntryNames ==
    {[abs |-> a, comps |-> cs, slash |-> FALSE] : a \in BOOLEAN, cs \in SeqsUpTo(Seg, MaxDepth)}
    \cup {[abs |-> FALSE, comps |-> <<".">>, slash |-> TRUE],
          [abs |-> FALSE, comps |-> <<".">>, slash |-> FALSE]}

\* tar.TypeDir, tar.TypeReg, and any other type flag (symlink, hard link, device)
TypeFlags == {"dir", "reg", "other"}

\* which file-system call of the iteration fails, if any
FsFaults == {"none", "mkdir", "open", "copy", "close"}

InstallPaths ==
    {EmptyPath,
     [abs |-> TRUE, comps |-> <<"a">>],
     [abs |-> TRUE, comps |-> <<>>],
     [abs |-> FALSE, comps |-> <<"a">>],
     [abs |-> FALSE, comps |-> <<"..">>],
     [abs |-> FALSE, comps |-> <<".">>]}

\* what MkdirAll, http.NewRequestWithContext (which refuses a download URL
\* it cannot parse; buildDownloadURL hands Runner.DownloadURL on as it is),
\* the HTTP request and the gzip header yield
DownloadOutcomes == {"mkdirfail", "reqfail", "httperror", "non200", "gzipfail", "ok"}

(***************************************************************************)
(* The reconciliation engine: data.                                        *)
(***************************************************************************)
Claims == 1..NumClaims

VMIds == 1..MaxVMs

NoVM == 0

\* p.config.OperatorUID of this operator instance, and of another one
OperatorUID == "op-A"

OtherOperatorUID == "op-B"

\* time.Minute * 2 of handleVMShutdown
RequeueAfterMinutes == 2

\* time.NewTicker(30 * time.Second) of startVMStateMonitor
MonitorIntervalSeconds == 30

\* hyperfleetv1alpha1.MachineClaimPhase*
Phases == {"Pending", "Provisioning", "Bootstrapping", "Ready", "Draining",
           "Terminating", "Failed"}

\* the failures the engine can meet: an error of r.Get other than NotFound
\* ("get"), of getHypervisorMachineTemplate ("template"), of
\* generateAttestationData or renderCloudInit ("config": a template whose
\* configuration cannot be used), of GetVMStatus ("status"), of
\* p.client.CreateVM ("create"), of p.client.TagVM ("tag"), of DeleteVM
\* ("delete"), of a status write ("update"), of r.Delete ("apidelete"), of
\* r.List ("list"), of ListVMs ("listvms"), and a crash of the engine in
\* the middle of its work ("crash")
FaultKinds == {"get", "template", "config", "status", "create", "tag", "delete",
               "update", "apidelete", "list", "listvms", "crash"}

Signals == {"none", "bootstrapped", "ready"}

NewClaim ==
    [present |-> TRUE, deletionTimestamp |-> FALSE, finalizer |-> TRUE,
     phase |-> "Pending", vmRef |-> NoVM, conds |-> {}, message |-> ""]

FreeVM ==
    [st |-> "free", power |-> "none", agent |-> "none",
     managedBy |-> "", operatorUID |-> "", claim |-> 0]

\* no tick of the monitor is in progress
NoListing == [c \in Claims |-> NoVM]

\* no pass of reconcileOrphanedVMs is in progress
NoOrphans == [todo |-> {}, cur |-> NoVM, val |-> NoVM]

\* the engine's variables while another subsystem is under study
EngIdle ==
    /\ claim = [c \in Claims |-> NewClaim]
    /\ vm = [v \in VMIds |-> FreeVM]
    /\ queue = {}
    /\ requeueAfter = [c \in Claims |-> 0]
    /\ faults = 0
    /\ deleteCalls = [v \in VMIds |-> 0]
    /\ denied = {}
    /\ running = {}
    /\ listing = NoListing
    /\ orphan = NoOrphans

\* the error value nil of shutdownVM
NoError == [msg |-> "", last |-> 0]

\* a RunnerConfig with every optional field of Runner left empty
DefaultConfig ==
    [url |-> "https://github.com/o/r", token |-> "tok", name |-> "runner-1",
     labels |-> <<>>, workDir |-> "", method |-> "runner-token",
     spiffe |-> [enabled |-> FALSE, joinToken |-> "", spiffeID |-> ""]]

\* the agent's process before main has run
AgStart ==
    /\ agPc = "main"
    /\ agTrace = <<>>
    /\ agCmd = 1
    /\ agLastErr = 0
    /\ agShutErr = NoError
    /\ agErr = ""
    /\ agExit = "running"
    /\ agDirs = {"install", "work"}
    /\ agPowerOff = FALSE

\* the agent's variables while another subsystem is under study
AgIdle == AgStart /\ agCfg = DefaultConfig

\* no HypervisorCluster and no HypervisorMachineTemplate has been applied
NoCluster == [present |-> FALSE, conds |-> <<>>]

NoTemplate ==
    [present |-> FALSE, deletionTimestamp |-> FALSE, finalizer |-> FALSE,
     spec |-> "valid", conds |-> <<>>, available |-> FALSE, validationStatus |-> ""]

\* no run of Reconcile yet.  A run is recorded as: the controller (who),
\* the branch of Reconcile taken (path), what it returned (result "ok",
\* "error" or "requeue"; requeueAfter in minutes, 0 = none), the connection
\* test's outcome (tested), the provider clients created and closed, and the
\* status of the record's condition when the run began (before)
NoRun ==
    [who |-> "none", path |-> "none", result |-> "ok", requeueAfter |-> 0,
     tested |-> "none", created |-> 0, closed |-> 0, before |-> "none"]

\* no run of the cluster's Reconcile is in progress.  A run in progress
\* is: the call it makes next (pc), the object r.Get gave it (rec), whether
\* the stored record has changed since (stale: the store refuses a write of
\* an object whose resourceVersion is not the stored one), and what
\* testConnection met (conn)
NoClusterRun == [pc |-> "idle", rec |-> NoCluster, stale |-> FALSE, conn |-> "ok"]

\* no run of the template's Reconcile is in progress.  A run in progress
\* holds in addition the cluster as r.Get gave it (cl) and whether
\* CreateClient worked (clientOK)
NoTemplateRun ==
    [pc |-> "idle", rec |-> NoTemplate, stale |-> FALSE, cl |-> NoCluster,
     clientOK |-> TRUE]

InfIdle ==
    /\ cluster = NoCluster
    /\ template = NoTemplate
    /\ clusterRun = NoClusterRun
    /\ templateRun = NoTemplateRun
    /\ infRun = NoRun
    /\ clDelays = <<>>

(***************************************************************************)
(* downloadGitHubRunner.                                                   *)
(***************************************************************************)
ExInit ==
    /\ exInstall \in InstallPaths
    /\ exStage = "start"
    /\ exErr = ""
    /\ exCount = 0
    /\ exTarget = NoPath
    /\ exType = "none"
    /\ exDirs = {}
    /\ exFiles = {}
    /\ EngIdle
    /\ AgIdle
    /\ InfIdle

DownloadStartExtractsErrorPage(outcome) ==
    /\ exStage = "start"
    /\ exStage' = IF outcome \in {"ok", "non200"} THEN "extracting" ELSE "error"
    /\ exErr' = CASE outcome = "mkdirfail" -> "failed to create install directory"
                  [] outcome = "reqfail"   -> "failed to create request"
                  [] outcome = "httperror" -> "failed to download runner"
                  [] outcome = "non200"    -> "failed to download runner: HTTP"
                  [] outcome = "gzipfail"  -> "failed to create gzip reader"
                  [] OTHER                 -> ""
    /\ UNCHANGED <<exInstall, exCount, exTarget, exType, exDirs, exFiles>>
    /\ UNCHANGED <<engVars, agVars, infVars>>

\* Lines 176-221: create the install directory, build the request, issue it,
\* check the status code, open the gzip stream.
DownloadStart(outcome) ==
    /\ exStage = "start"
    /\ exStage' = IF outcome = "ok" THEN "extracting" ELSE "error"
    /\ exErr' = CASE outcome = "mkdirfail" -> "failed to create install directory"
                  [] outcome = "reqfail"   -> "failed to create request"
                  [] outcome = "httperror" -> "failed to download runner"
                  [] outcome = "non200"    -> "failed to download runner: HTTP"
                  [] outcome = "gzipfail"  -> "failed to create gzip reader"
                  [] OTHER                 -> ""
    /\ UNCHANGED <<exInstall, exCount, exTarget, exType, exDirs, exFiles>>
    /\ UNCHANGED <<engVars, agVars, infVars>>

ExtractEntryWritesLinks(name, typeflag, fault) ==
    LET installPath == installPathOf(exInstall)
        targetPath  == Join(installPath, name)
        parent      == Dir(targetPath)
    IN
    /\ exStage = "extracting"
    /\ exCount < MaxEntries
    /\ exCount' = exCount + 1
    /\ exTarget' = targetPath
    /\ exType' = typeflag
    /\ UNCHANGED exInstall
    /\ UNCHANGED <<engVars, agVars, infVars>>
    /\ IF ~PathCheck(installPath, name)
       THEN /\ exStage' = "error"
            /\ exErr' = "invalid file path in archive"
            /\ UNCHANGED <<exDirs, exFiles>>
       ELSE CASE typeflag = "dir" ->
                   IF fault = "mkdir" \/ MkdirAllBlocked(exFiles, targetPath)
                   THEN /\ exStage' = "error"
                        /\ exErr' = "failed to create directory"
                        /\ UNCHANGED <<exDirs, exFiles>>
                   ELSE /\ exDirs' = exDirs \cup NewDirs(installPath, exDirs, targetPath)
                        /\ UNCHANGED <<exStage, exErr, exFiles>>
              [] typeflag = "reg" ->
                   IF fault = "mkdir" \/ MkdirAllBlocked(exFiles, parent)
                   THEN /\ exStage' = "error"
                        /\ exErr' = "failed to create parent directory"
                        /\ UNCHANGED <<exDirs, exFiles>>
                   ELSE /\ exDirs' = exDirs \cup NewDirs(installPath, exDirs, parent)
                        /\ IF fault = "open" \/ IsDirectory(installPath, exDirs', targetPath)
                           THEN /\ exStage' = "error"
                                /\ exErr' = "failed to create file"
                                /\ UNCHANGED exFiles
                           ELSE /\ exFiles' = exFiles \cup {targetPath}
                                /\ IF fault = "copy"
                                   THEN exStage' = "error" /\ exErr' = "failed to write file"
                                   ELSE IF fault = "close"
                                   THEN exStage' = "error" /\ exErr' = "failed to close file"
                                   ELSE UNCHANGED <<exStage, exErr>>
              [] OTHER ->
                   /\ exFiles' = exFiles \cup {targetPath}
                   /\ UNCHANGED <<exStage, exErr, exDirs>>

\* One iteration of the loop of lines 224-272 for an entry the tar reader
\* returned: the path check, then the switch on the type flag.
ExtractEntry(name, typeflag, fault) ==
    LET installPath == installPathOf(exInstall)
        targetPath  == Join(installPath, name)
        parent      == Dir(targetPath)
    IN
    /\ exStage = "extracting"
    /\ exCount < MaxEntries
    /\ exCount' = exCount + 1
    /\ exTarget' = targetPath
    /\ exType' = typeflag
    /\ UNCHANGED exInstall
    /\ UNCHANGED <<engVars, agVars, infVars>>
    /\ IF ~PathCheck(installPath, name)
       THEN /\ exStage' = "error"
            /\ exErr' = "invalid file path in archive"
            /\ UNCHANGED <<exDirs, exFiles>>
       ELSE CASE typeflag = "dir" ->
                   IF fault = "mkdir" \/ MkdirAllBlocked(exFiles, targetPath)
                   THEN /\ exStage' = "error"
                        /\ exErr' = "failed to create directory"
                        /\ UNCHANGED <<exDirs, exFiles>>
                   ELSE /\ exDirs' = exDirs \cup NewDirs(installPath, exDirs, targetPath)
                        /\ UNCHANGED <<exStage, exErr, exFiles>>
              [] typeflag = "reg" ->
                   IF fault = "mkdir" \/ MkdirAllBlocked(exFiles, parent)
                   THEN /\ exStage' = "error"
                        /\ exErr' = "failed to create parent directory"
                        /\ UNCHANGED <<exDirs, exFiles>>
                   ELSE /\ exDirs' = exDirs \cup NewDirs(installPath, exDirs, parent)
                        /\ IF fault = "open" \/ IsDirectory(installPath, exDirs', targetPath)
                           THEN /\ exStage' = "error"
                                /\ exErr' = "failed to create file"
                                /\ UNCHANGED exFiles
                           ELSE /\ exFiles' = exFiles \cup {targetPath}
                                /\ IF fault = "copy"
                                   THEN exStage' = "error" /\ exErr' = "failed to write file"
                                   ELSE IF fault = "close"
                                   THEN exStage' = "error" /\ exErr' = "failed to close file"
                                   ELSE UNCHANGED <<exStage, exErr>>
              [] OTHER ->
                   UNCHANGED <<exStage, exErr, exDirs, exFiles>>

\* tarReader.Next() returns io.EOF (lines 226-228, 274-275) or another error
\* (lines 229-231).
ExtractEnd(readOK) ==
    /\ exStage = "extracting"
    /\ exStage' = IF readOK THEN "ok" ELSE "error"
    /\ exErr' = IF readOK THEN "" ELSE "failed to read tar entry"
    /\ UNCHANGED <<exInstall, exCount, exTarget, exType, exDirs, exFiles>>
    /\ UNCHANGED <<engVars, agVars, infVars>>

ExNext ==
    \/ \E o \in DownloadOutcomes : DownloadStart(o)
    \/ \E n \in EntryNames, t \in TypeFlags, f \in FsFaults : ExtractEntry(n, t, f)
    \/ \E ok \in BOOLEAN : ExtractEnd(ok)

SpecExtract == ExInit /\ [][ExNext]_vars

(***************************************************************************)
(* C1.  Archive extraction safety: an entry whose target path resolves     *)
(* outside the install path makes the extraction fail with the explicit    *)
(* "invalid file path in archive" error, and nothing is ever created or    *)
(* written outside the install path.                                       *)
(***************************************************************************)
C1_ExtractionStaysInside ==
    /\ \A p \in exDirs \cup exFiles : Inside(installPathOf(exInstall), p)
    /\ (exTarget # NoPath /\ ~Inside(installPathOf(exInstall), exTarget))
          => (exStage = "error" /\ exErr = "invalid file path in archive")

\* the ownership tags of VM v carry the managing-system marker and this
\* operator's instance identifier
Owned(vmf, v) == vmf[v].managedBy = "hyperfleet" /\ vmf[v].operatorUID = OperatorUID

\* the VM is on the hypervisor under tags that do not name this operator
Foreign(vmf, v) == v \in VMIds /\ vmf[v].st = "exists" /\ ~Owned(vmf, v)

(***************************************************************************)
(* The hypervisor provider.                                                *)
(***************************************************************************)
\* ProxmoxProvider.ValidateVMOwnership: nil ("ok") or the error.
ValidateVMOwnership(vmf, v) ==
    IF vmf[v].st # "exists" THEN "GetVM failed"
    ELSE IF vmf[v].managedBy # "hyperfleet" THEN "VM is not managed by HyperFleet"
    ELSE IF vmf[v].operatorUID # OperatorUID
         THEN "VM is managed by different HyperFleet instance"
    ELSE "ok"

\* Provider.GetVMStatus: the power state, or "error".
GetVMStatus(vmf, v, f) ==
    IF f = "status" \/ vmf[v].st # "exists" THEN "error" ELSE vmf[v].power

\* vmStatus.PowerState == "stopped" || vmStatus.PowerState == "shutdown"
IsShutdownState(power) == power = "stopped" \/ power = "shutdown"

\* p.client.CreateVM (design.md line 1725): the VM exists and carries no
\* ownership tag yet; claim is spec.MachineClaimName
CreatedVM(c) ==
    [st |-> "exists", power |-> "running", agent |-> "running",
     managedBy |-> "", operatorUID |-> "", claim |-> c]

\* p.client.TagVM (design.md lines 1731-1740): the ownership tags are applied
TagVM(vmrec) == [vmrec EXCEPT !.managedBy = "hyperfleet", !.operatorUID = OperatorUID]

FreeIds(vmf) == {v \in VMIds : vmf[v].st = "free"}

NextFreeId(vmf) == CHOOSE v \in FreeIds(vmf) : \A w \in FreeIds(vmf) : v <= w

\* Provider.DeleteVM succeeded
DeletedVM(rec) == [rec EXCEPT !.st = "deleted", !.power = "none", !.agent = "none"]

\* r.isHyperFleetVM and r.isOwnedByThisOperator of reconcileOrphanedVMs
isHyperFleetVM(vmrec) == vmrec.managedBy = "hyperfleet"

isOwnedByThisOperator(vmrec) == vmrec.operatorUID = OperatorUID

(***************************************************************************)
(* The declarative store.                                                  *)
(***************************************************************************)
\* client.Delete on a record: with a finalizer present the record only gets
\* its deletion timestamp; without one it is removed.
APIDelete(rec) ==
    IF rec.finalizer THEN [rec EXCEPT !.deletionTimestamp = TRUE]
    ELSE [rec EXCEPT !.present = FALSE]

\* the finalizer is removed from a record that carries a deletion timestamp:
\* the store removes the record
RemoveFinalizer(rec) ==
    [rec EXCEPT !.finalizer = FALSE, !.present = ~rec.deletionTimestamp]

(***************************************************************************)
(* MachineClaimReconciler: what its handlers compute.                      *)
(***************************************************************************)
\* updateCleanupFailedStatus: the failure condition is recorded
updateCleanupFailedStatus(rec) ==
    [rec EXCEPT !.conds = rec.conds \cup {"CleanupFailed"},
                !.message = "failed to delete VM"]

updateVMStatusNoPhaseGuard(rec, sig) ==
    IF sig = "bootstrapped" THEN [rec EXCEPT !.phase = "Bootstrapping"]
    ELSE IF sig = "ready" THEN [rec EXCEPT !.phase = "Ready"]
    ELSE rec

\* updateVMStatus: the status of a running VM follows the external signal
\* (spec 4.1: Provisioning -> Bootstrapping -> Ready)
updateVMStatus(rec, sig) ==
    IF sig = "bootstrapped" /\ rec.phase = "Provisioning"
    THEN [rec EXCEPT !.phase = "Bootstrapping"]
    ELSE IF sig = "ready" /\ rec.phase \in {"Provisioning", "Bootstrapping"}
    THEN [rec EXCEPT !.phase = "Ready"]
    ELSE rec

\* updateStatus: the reference of the VM that provisionVM returned is
\* recorded and the claim moves to Provisioning
updateStatus(rec, v) == [rec EXCEPT !.vmRef = v, !.phase = "Provisioning"]

\* handleVMShutdown, design.md lines 873-881: the object whose status is
\* written once the VM is deleted
CleanedUp(rec) ==
    [rec EXCEPT !.phase = "Terminating", !.conds = rec.conds \cup {"VMCleanedUp"}]

\* handleDeletion: the status of a claim whose ownership validation failed
OwnershipFailed(rec, msg) ==
    [rec EXCEPT !.phase = "Failed",
                !.conds = rec.conds \cup {"OwnershipValidationFailed"},
                !.message = msg]

\* handleVMShutdown, design.md lines 848-851: where the handler goes from
\* its entry
handleVMShutdown(rec) == IF rec.vmRef = NoVM THEN "return" ELSE "ValidateVMOwnership"

\* Reconcile, design.md lines 797-834: where a run goes once r.Get has
\* answered with the record rec and the failure f was met (f = "none": none)
AfterGet(rec, f) ==
    IF f = "get" THEN "return"
    ELSE IF ~rec.present THEN "return"
    ELSE IF rec.deletionTimestamp
         THEN IF rec.vmRef = NoVM THEN "RemoveFinalizer" ELSE "deleteVM"
    ELSE IF f = "template" THEN "return"
    ELSE IF rec.vmRef # NoVM THEN "GetVMStatus"
    ELSE IF f = "config" THEN "return"
    ELSE "CreateVM"

\* the failures r.Get, getHypervisorMachineTemplate, generateAttestationData
\* and renderCloudInit can meet for the record rec
GetFaults(rec) ==
    {"none", "get"}
        \cup (IF rec.present /\ ~rec.deletionTimestamp THEN {"template"} ELSE {})
        \cup (IF rec.present /\ ~rec.deletionTimestamp /\ rec.vmRef = NoVM
              THEN {"config"} ELSE {})

(***************************************************************************)
(* The bootstrap agent's shutdown chain, as the engine sees its result.    *)
(***************************************************************************)
Strategies == {"syscall", "sysrq", "powerstate", "command"}

\* shutdownVM, main.go lines 387-408: nil ("ok") at the first strategy that
\* succeeds, else the error of shutdownViaCommand
shutdownVM(s) ==
    IF s["syscall"] THEN "ok"
    ELSE IF s["sysrq"] THEN "ok"
    ELSE IF s["powerstate"] THEN "ok"
    ELSE IF s["command"] THEN "ok"
    ELSE "all shutdown methods failed"

(***************************************************************************)
(* The engine's steps.  Reconcile waits on the API server and on the       *)
(* hypervisor call after call and holds no lock, so a run is a sequence of *)
(* steps, one per call, and the steps of other runs, of the monitor and of *)
(* the environment fall between them.  A run in progress is a record:      *)
(*   who    "worker" (a worker of the controller's queue) or "monitor"     *)
(*          (reconcileVMStates calls r.Reconcile on its own goroutine)     *)
(*   c      the claim of the Request                                       *)
(*   pc     the call the run makes next ("return": the handler returned)   *)
(*   rec    the machineClaim object the run holds (what r.Get answered)    *)
(*   v      the VM the run works on (Status.VMRef, or vmInfo.ID)           *)
(*   val    the VM whose ownership this run has validated                  *)
(*   res    what the run returned: "ok" (Result{}, nil), "error" (non-nil  *)
(*          error), "requeue" (Result{RequeueAfter: 2 min}, nil)           *)
(*   err    the error of the provider call the run is about to record      *)
(* rec, v, val and err are kept as long as the run still reads them.       *)
(***************************************************************************)
ExIdle ==
    /\ exInstall = EmptyPath
    /\ exStage = "start"
    /\ exErr = ""
    /\ exCount = 0
    /\ exTarget = NoPath
    /\ exType = "none"
    /\ exDirs = {}
    /\ exFiles = {}

\* The operator has started: every claim was created with its finalizer and
\* its create event is in the work queue.
EngInit ==
    /\ ExIdle
    /\ AgIdle
    /\ InfIdle
    /\ running = {}
    /\ listing = NoListing
    /\ orphan = NoOrphans
    /\ claim = [c \in Claims |-> NewClaim]
    /\ vm = [v \in VMIds |-> FreeVM]
    /\ queue = Claims
    /\ requeueAfter = [c \in Claims |-> 0]
    /\ faults = 0
    /\ deleteCalls = [v \in VMIds |-> 0]
    /\ denied = {}

Callers == {"worker", "monitor"}

NewRun(w, c) ==
    [who |-> w, c |-> c, pc |-> "Get", rec |-> NewClaim, v |-> NoVM, val |-> NoVM,
     res |-> "none", err |-> ""]

\* the run after its handler returned
Returned(r, res) == [NewRun(r.who, r.c) EXCEPT !.pc = "return", !.res = res]

\* the run r goes on as r2
Goto(r, r2) == running' = (running \ {r}) \cup {r2}

\* the step meets the failure f: at most MaxFaults failures are injected
Fault(f) ==
    /\ f # "none" => faults < MaxFaults
    /\ faults' = IF f = "none" THEN faults ELSE faults + 1

\* a provider call enters the call history: the operation, the VM and the
\* claim the caller works for
Record(op, v, c) ==
    /\ deleteCalls' = IF op = "DeleteVM" /\ deleteCalls[v] < MaxDeleteCalls
                      THEN [deleteCalls EXCEPT ![v] = @ + 1]
                      ELSE deleteCalls
    /\ denied' = IF op = "ValidateVMOwnership" /\ Foreign(vm, v) /\ c \in Claims
                 THEN denied \cup {c} ELSE denied

\* the record of claim c is written; the watch event of a changed record
\* that is still there enqueues the claim
Store(c, rec) ==
    /\ claim' = [claim EXCEPT ![c] = rec]
    /\ queue' = IF rec # claim[c] /\ rec.present THEN queue \cup {c} ELSE queue

\* A worker takes claim c from the work queue: the queue hands out no key
\* that a worker is still processing.
WorkerBegin(c) ==
    /\ c \in queue
    /\ \A r \in running : ~(r.who = "worker" /\ r.c = c)
    /\ queue' = queue \ {c}
    /\ running' = running \cup {NewRun("worker", c)}
    /\ UNCHANGED <<claim, vm, requeueAfter, faults, history, listing, orphan, restVars>>

\* Reconcile, design.md lines 791-806 and 824-834: r.Get, the test of the
\* deletion timestamp, getHypervisorMachineTemplate and, for a claim
\* without a VM, generateAttestationData and renderCloudInit.
ReconcileGet(r, f) ==
    /\ r.pc = "Get"
    /\ f \in GetFaults(claim[r.c])
    /\ Fault(f)
    /\ LET rec == claim[r.c]
           pc == AfterGet(rec, f)
           got == [r EXCEPT !.pc = pc, !.v = rec.vmRef,
                            !.rec = IF pc \in {"GetVMStatus", "deleteVM", "RemoveFinalizer"}
                                   THEN rec ELSE NewClaim]
       IN  Goto(r, IF pc = "return"
                   THEN Returned(r, IF f = "none" THEN "ok" ELSE "error")
                   ELSE got)
    /\ UNCHANGED <<claim, vm, queue, requeueAfter, history, listing, orphan, restVars>>

\* Reconcile, design.md lines 808-819: GetVMStatus of the referenced VM; a
\* stopped VM goes to handleVMShutdown.
ReconcileGetVMStatus(r, f) ==
    /\ r.pc = "GetVMStatus"
    /\ f \in {"none", "status"}
    /\ f = "status" => vm[r.v].st = "exists"
    /\ Fault(f)
    /\ LET power == GetVMStatus(vm, r.v, f)
       IN  Goto(r, IF power = "error" THEN Returned(r, "error")
                   ELSE IF IsShutdownState(power)
                        THEN IF handleVMShutdown(r.rec) = "return"
                             THEN Returned(r, "ok")
                             ELSE [r EXCEPT !.pc = handleVMShutdown(r.rec)]
                   ELSE [r EXCEPT !.pc = "updateVMStatus", !.rec = NewClaim])
    /\ Record("GetVMStatus", r.v, r.c)
    /\ UNCHANGED <<claim, vm, queue, requeueAfter, listing, orphan, restVars>>

\* Reconcile, design.md line 821: updateVMStatus applies the signal sig to
\* the stored record and hands its error back.
ReconcileUpdateVMStatus(r, f, sig) ==
    /\ r.pc = "updateVMStatus"
    /\ f \in {"none", "update"}
    /\ f = "update" => claim[r.c].present /\ sig = "none"
    /\ sig # "none" => claim[r.c].present /\ updateVMStatus(claim[r.c], sig) # claim[r.c]
    /\ Fault(f)
    /\ IF f = "update" \/ ~claim[r.c].present
       THEN /\ Goto(r, Returned(r, "error"))
            /\ UNCHANGED <<claim, queue>>
       ELSE /\ Store(r.c, updateVMStatus(claim[r.c], sig))
            /\ Goto(r, Returned(r, "ok"))
    /\ UNCHANGED <<vm, requeueAfter, history, listing, orphan, restVars>>

\* provisionVM (design.md line 837) reaches ProxmoxProvider.CreateVM:
\* p.client.CreateVM, lines 1725-1728.  It fails when the provider fails or
\* the hypervisor has no VM id left.
CreateVMCreate(r, f) ==
    /\ r.pc = "CreateVM"
    /\ f \in {"none", "create"}
    /\ f = "create" => FreeIds(vm) # {}
    /\ Fault(f)
    /\ IF f = "create" \/ FreeIds(vm) = {}
       THEN /\ Goto(r, Returned(r, "error"))
            /\ UNCHANGED vm
       ELSE /\ vm' = [vm EXCEPT ![NextFreeId(vm)] = CreatedVM(r.c)]
            /\ Goto(r, [r EXCEPT !.pc = "TagVM", !.v = NextFreeId(vm)])
    /\ UNCHANGED <<claim, queue, requeueAfter, history, listing, orphan, restVars>>

\* ProxmoxProvider.CreateVM, design.md lines 1730-1746: p.client.TagVM.
CreateVMTag(r, f) ==
    /\ r.pc = "TagVM"
    /\ f \in {"none", "tag"}
    /\ Fault(f)
    /\ IF f = "tag"
       THEN /\ Goto(r, [r EXCEPT !.pc = "TagCleanup"])
            /\ UNCHANGED vm
       ELSE /\ vm' = [vm EXCEPT ![r.v] = TagVM(vm[r.v])]
            /\ Goto(r, [r EXCEPT !.pc = "updateStatus"])
    /\ UNCHANGED <<claim, queue, requeueAfter, history, listing, orphan, restVars>>

\* ProxmoxProvider.CreateVM, design.md lines 1740-1744: TagVM failed;
\* p.client.DeleteVM is called on the untagged VM with no ownership
\* validation, its result (ok) is ignored, and CreateVM returns the error.
CreateVMCleanup(r, ok) ==
    /\ r.pc = "TagCleanup"
    /\ vm' = IF ok /\ vm[r.v].st = "exists" THEN [vm EXCEPT ![r.v] = DeletedVM(vm[r.v])]
             ELSE vm
    /\ Goto(r, Returned(r, "error"))
    /\ Record("DeleteVM", r.v, r.c)
    /\ UNCHANGED <<claim, queue, requeueAfter, faults, listing, orphan, restVars>>

\* Reconcile, design.md line 843: updateStatus records the VM in the stored
\* record and hands its error back.
ReconcileUpdateStatus(r, f) ==
    /\ r.pc = "updateStatus"
    /\ f \in {"none", "update"}
    /\ f = "update" => claim[r.c].present
    /\ Fault(f)
    /\ IF f = "update" \/ ~claim[r.c].present
       THEN /\ Goto(r, Returned(r, "error"))
            /\ UNCHANGED <<claim, queue>>
       ELSE /\ Store(r.c, updateStatus(claim[r.c], r.v))
            /\ Goto(r, Returned(r, "ok"))
    /\ UNCHANGED <<vm, requeueAfter, history, listing, orphan, restVars>>

\* handleVMShutdown, design.md lines 857-861: ValidateVMOwnership; its error
\* is returned.
handleVMShutdownNoValidation(r) ==
    /\ r.pc = "ValidateVMOwnership"
    /\ Goto(r, [r EXCEPT !.pc = "DeleteVM"])
    /\ UNCHANGED <<claim, vm, queue, requeueAfter, faults, history, listing, orphan, restVars>>

handleVMShutdownValidate(r) ==
    /\ r.pc = "ValidateVMOwnership"
    /\ Goto(r, IF ValidateVMOwnership(vm, r.v) = "ok"
                THEN [r EXCEPT !.pc = "DeleteVM", !.val = r.v]
                ELSE Returned(r, "error"))
    /\ Record("ValidateVMOwnership", r.v, r.c)
    /\ UNCHANGED <<claim, vm, queue, requeueAfter, faults, listing, orphan, restVars>>

\* handleVMShutdown, design.md lines 863-865: DeleteVM; it fails when the
\* provider fails or the VM is gone, and the handler goes on to record the
\* failure.
handleVMShutdownDelete(r, f) ==
    /\ r.pc = "DeleteVM"
    /\ f \in {"none", "delete"}
    /\ f = "delete" => vm[r.v].st = "exists"
    /\ Fault(f)
    /\ IF f = "delete" \/ vm[r.v].st # "exists"
       THEN /\ Goto(r, [r EXCEPT !.pc = "updateCleanupFailedStatus", !.rec = NewClaim])
            /\ UNCHANGED vm
       ELSE /\ vm' = [vm EXCEPT ![r.v] = DeletedVM(vm[r.v])]
            /\ Goto(r, [r EXCEPT !.pc = "StatusUpdate"])
    /\ Record("DeleteVM", r.v, r.c)
    /\ UNCHANGED <<claim, queue, requeueAfter, listing, orphan, restVars>>

\* handleVMShutdown, design.md lines 866-868: updateCleanupFailedStatus
\* records the failure in the stored record, its result is not looked at,
\* and the run returns RequeueAfter 2 minutes.
handleVMShutdownCleanupFailed(r) ==
    /\ r.pc = "updateCleanupFailedStatus"
    /\ IF claim[r.c].present
       THEN Store(r.c, updateCleanupFailedStatus(claim[r.c]))
       ELSE UNCHANGED <<claim, queue>>
    /\ Goto(r, Returned(r, "requeue"))
    /\ UNCHANGED <<vm, requeueAfter, faults, history, listing, orphan, restVars>>

\* handleVMShutdown, design.md lines 871-886: the phase Terminating and the
\* VMCleanedUp condition are set on the object the run holds and
\* r.Status().Update writes it; the store refuses an object that is not the
\* stored one any more (a conflict), and the error is returned.
handleVMShutdownStatusUpdate(r, f) ==
    /\ r.pc = "StatusUpdate"
    /\ f \in {"none", "update"}
    /\ f = "update" => claim[r.c] = r.rec
    /\ Fault(f)
    /\ IF f = "update" \/ claim[r.c] # r.rec
       THEN /\ Goto(r, Returned(r, "error"))
            /\ UNCHANGED <<claim, queue>>
       ELSE /\ Store(r.c, CleanedUp(r.rec))
            /\ Goto(r, [r EXCEPT !.pc = "Delete", !.rec = NewClaim])
    /\ UNCHANGED <<vm, requeueAfter, history, listing, orphan, restVars>>

\* handleVMShutdown, design.md lines 888-896: r.Delete of the claim; its
\* error is returned.
handleVMShutdownAPIDelete(r, f) ==
    /\ r.pc = "Delete"
    /\ f \in {"none", "apidelete"}
    /\ f = "apidelete" => claim[r.c].present
    /\ Fault(f)
    /\ IF f = "apidelete" \/ ~claim[r.c].present
       THEN /\ Goto(r, Returned(r, "error"))
            /\ UNCHANGED <<claim, queue>>
       ELSE /\ Store(r.c, APIDelete(claim[r.c]))
            /\ Goto(r, Returned(r, "ok"))
    /\ UNCHANGED <<vm, requeueAfter, history, listing, orphan, restVars>>

\* handleDeletion, the finalizer cleanup of a claim that carries a deletion
\* timestamp (spec 4.1), deletes the VM through deleteVM.  deleteVM,
\* design.md lines 1674-1678: ValidateVMOwnership; its error is returned to
\* handleDeletion.
deleteVMValidate(r) ==
    /\ r.pc = "deleteVM"
    /\ LET val == ValidateVMOwnership(vm, r.v)
       IN  Goto(r, IF val = "ok"
                   THEN [r EXCEPT !.pc = "deleteVM.DeleteVM", !.val = r.v]
                   ELSE [r EXCEPT !.pc = "OwnershipFailed", !.err = val,
                                    !.rec = NewClaim])
    /\ Record("ValidateVMOwnership", r.v, r.c)
    /\ UNCHANGED <<claim, vm, queue, requeueAfter, faults, listing, orphan, restVars>>

\* handleDeletion marks the claim Failed when the ownership validation of
\* deleteVM failed (spec 4.1), and returns.
handleDeletionOwnershipFailed(r) ==
    /\ r.pc = "OwnershipFailed"
    /\ IF claim[r.c].present
       THEN Store(r.c, OwnershipFailed(claim[r.c], r.err))
       ELSE UNCHANGED <<claim, queue>>
    /\ Goto(r, Returned(r, "ok"))
    /\ UNCHANGED <<vm, requeueAfter, faults, history, listing, orphan, restVars>>

\* deleteVM, design.md lines 1680-1681: DeleteVM; its error is returned to
\* handleDeletion.
deleteVMDelete(r, f) ==
    /\ r.pc = "deleteVM.DeleteVM"
    /\ f \in {"none", "delete"}
    /\ f = "delete" => vm[r.v].st = "exists"
    /\ Fault(f)
    /\ IF f = "delete" \/ vm[r.v].st # "exists"
       THEN /\ Goto(r, [r EXCEPT !.pc = "CleanupFailed", !.rec = NewClaim])
            /\ UNCHANGED vm
       ELSE /\ vm' = [vm EXCEPT ![r.v] = DeletedVM(vm[r.v])]
            /\ Goto(r, [r EXCEPT !.pc = "RemoveFinalizer"])
    /\ Record("DeleteVM", r.v, r.c)
    /\ UNCHANGED <<claim, queue, requeueAfter, listing, orphan, restVars>>

\* handleDeletion when deleteVM failed to delete the VM (spec 4.1): the
\* guard is kept, the failure is recorded and the run returns RequeueAfter
\* 2 minutes.
handleDeletionCleanupFailed(r) ==
    /\ r.pc = "CleanupFailed"
    /\ IF claim[r.c].present
       THEN Store(r.c, updateCleanupFailedStatus(
                           [claim[r.c] EXCEPT !.phase = "Terminating"]))
       ELSE UNCHANGED <<claim, queue>>
    /\ Goto(r, Returned(r, "requeue"))
    /\ UNCHANGED <<vm, requeueAfter, faults, history, listing, orphan, restVars>>

\* handleDeletion: the guard is cleared (at once for a claim without a VM
\* reference, else after the VM is deleted) by an update of the object the
\* run read, and the store removes the record.  The store refuses the
\* update when it fails or when the stored record is not the one the run
\* read any more (a conflict); the guard then stays and the error is
\* returned.
handleDeletionFinalizeIgnoresError(r, f) ==
    /\ r.pc = "RemoveFinalizer"
    /\ f \in {"none", "update"}
    /\ f = "update" => claim[r.c] = r.rec
    /\ Fault(f)
    /\ IF f = "update" \/ claim[r.c] # r.rec
       THEN UNCHANGED <<claim, queue>>
       ELSE Store(r.c, RemoveFinalizer([claim[r.c] EXCEPT !.phase = "Terminating"]))
    /\ Goto(r, Returned(r, "ok"))
    /\ UNCHANGED <<vm, requeueAfter, history, listing, orphan, restVars>>

handleDeletionFinalize(r, f) ==
    /\ r.pc = "RemoveFinalizer"
    /\ f \in {"none", "update"}
    /\ f = "update" => claim[r.c] = r.rec
    /\ Fault(f)
    /\ IF f = "update" \/ claim[r.c] # r.rec
       THEN /\ Goto(r, Returned(r, "error"))
            /\ UNCHANGED <<claim, queue>>
       ELSE /\ Store(r.c, RemoveFinalizer([claim[r.c] EXCEPT !.phase = "Terminating"]))
            /\ Goto(r, Returned(r, "ok"))
    /\ UNCHANGED <<vm, requeueAfter, history, listing, orphan, restVars>>

\* The worker's call of Reconcile has returned: an error or a RequeueAfter
\* puts the claim back in the queue.
WorkerReturn(r) ==
    /\ r.who = "worker"
    /\ r.pc = "return"
    /\ running' = running \ {r}
    /\ queue' = IF r.res # "ok" THEN queue \cup {r.c} ELSE queue
    /\ requeueAfter' = [requeueAfter EXCEPT ![r.c] =
           IF r.res = "requeue" THEN RequeueAfterMinutes ELSE 0]
    /\ UNCHANGED <<claim, vm, faults, history, listing, orphan, restVars>>

\* reconcileVMStates, design.md lines 943-949: the monitor's call of
\* r.Reconcile has returned; what it returned is dropped.
MonitorReturn(r) ==
    /\ r.who = "monitor"
    /\ r.pc = "return"
    /\ running' = running \ {r}
    /\ UNCHANGED <<claim, vm, queue, requeueAfter, faults, history, listing, orphan, restVars>>

\* the loop of reconcileVMStates does not skip the listed claim rec
\* (design.md lines 925-928)
MonitorVisits(rec) ==
    /\ rec.present
    /\ rec.vmRef # NoVM
    /\ rec.phase # "Terminating"

\* the monitor is between two ticks
MonitorIdle ==
    /\ listing = NoListing
    /\ \A r \in running : r.who # "monitor"

\* reconcileVMStates, design.md lines 917-922, run by the 30-second ticker
\* of startVMStateMonitor (lines 900-914): r.List.  Its error ends the
\* tick; else the loop works on the records as listed, of which it keeps
\* the VM reference of every claim it does not skip.
reconcileVMStates(f) ==
    /\ MonitorIdle
    /\ f \in {"none", "list"}
    /\ Fault(f)
    /\ listing' = IF f = "list" THEN listing
                  ELSE [c \in Claims |-> IF MonitorVisits(claim[c]) THEN claim[c].vmRef
                                         ELSE NoVM]
    /\ f = "none" => listing' # listing
    /\ UNCHANGED <<claim, vm, queue, requeueAfter, history, running, orphan, restVars>>

\* One iteration of the loop of reconcileVMStates (design.md lines 924-950)
\* on the listed claim c: GetVMStatus of the listed VM and, for a stopped
\* VM, the call of r.Reconcile.
MonitorVisit(c, f) ==
    /\ listing[c] # NoVM
    /\ \A d \in Claims : listing[d] # NoVM => c <= d
    /\ \A r \in running : r.who # "monitor"
    /\ f \in {"none", "status"}
    /\ f = "status" => vm[listing[c]].st = "exists"
    /\ Fault(f)
    /\ listing' = [listing EXCEPT ![c] = NoVM]
    /\ running' = IF IsShutdownState(GetVMStatus(vm, listing[c], f))
                  THEN running \cup {NewRun("monitor", c)}
                  ELSE running
    /\ Record("GetVMStatus", listing[c], c)
    /\ UNCHANGED <<claim, vm, queue, requeueAfter, orphan, restVars>>

\* reconcileOrphanedVMs, design.md lines 1685-1700: ListVMs; its error is
\* returned; of the listed VMs the loop keeps those under the tags of this
\* operator.
reconcileOrphanedVMs(f) ==
    /\ orphan = NoOrphans
    /\ f \in {"none", "listvms"}
    /\ Fault(f)
    /\ orphan' = IF f = "listvms" THEN orphan
                 ELSE [todo |-> {v \in VMIds : /\ vm[v].st = "exists"
                                                /\ isHyperFleetVM(vm[v])
                                                /\ isOwnedByThisOperator(vm[v])},
                       cur |-> NoVM, val |-> NoVM]
    /\ f = "none" => orphan' # orphan
    /\ UNCHANGED <<claim, vm, queue, requeueAfter, history, running, listing, restVars>>

\* reconcileOrphanedVMs, design.md lines 1702-1705: handleOrphanedVM on the
\* listed VM v looks its claim up in the store.  A VM whose claim is still
\* there is left alone; one whose claim is gone is deleted through deleteVM.
handleOrphanedVM(v) ==
    /\ v \in orphan.todo
    /\ \A w \in orphan.todo : v <= w
    /\ orphan.cur = NoVM
    /\ orphan.val = NoVM
    /\ orphan' = IF claim[vm[v].claim].present
                 THEN [orphan EXCEPT !.todo = @ \ {v}]
                 ELSE [orphan EXCEPT !.cur = v]
    /\ UNCHANGED <<claim, vm, queue, requeueAfter, faults, history, running, listing,
                   restVars>>

\* deleteVM in handleOrphanedVM, design.md lines 1674-1678:
\* ValidateVMOwnership; its error is logged by reconcileOrphanedVMs.
handleOrphanedVMValidate(v) ==
    /\ orphan.cur = v
    /\ v # NoVM
    /\ orphan' = IF ValidateVMOwnership(vm, v) = "ok"
                 THEN [orphan EXCEPT !.cur = NoVM, !.val = v]
                 ELSE [orphan EXCEPT !.cur = NoVM, !.todo = @ \ {v}]
    /\ Record("ValidateVMOwnership", v, 0)
    /\ UNCHANGED <<claim, vm, queue, requeueAfter, faults, running, listing, restVars>>

\* deleteVM in handleOrphanedVM, design.md lines 1680-1681: DeleteVM; its
\* error is logged by reconcileOrphanedVMs.
handleOrphanedVMDelete(v, f) ==
    /\ orphan.val = v
    /\ f \in {"none", "delete"}
    /\ f = "delete" => vm[v].st = "exists"
    /\ Fault(f)
    /\ vm' = IF f = "none" /\ vm[v].st = "exists" THEN [vm EXCEPT ![v] = DeletedVM(vm[v])]
             ELSE vm
    /\ orphan' = [todo |-> orphan.todo \ {v}, cur |-> NoVM, val |-> NoVM]
    /\ Record("DeleteVM", v, 0)
    /\ UNCHANGED <<claim, queue, requeueAfter, running, listing, restVars>>

\* A deletion request for a claim reaches the store.
UserDelete(c) ==
    /\ claim[c].present
    /\ ~claim[c].deletionTimestamp
    /\ claim' = [claim EXCEPT ![c] = APIDelete(claim[c])]
    /\ queue' = IF claim'[c].present THEN queue \cup {c} ELSE queue
    /\ UNCHANGED <<vm, requeueAfter, faults, history, running, listing, orphan, restVars>>

\* The runner on VM v has finished; the agent ran cleanup, whose shutdown
\* chain met the outcomes s, and exited.
AgentFinishes(v, s) ==
    /\ vm[v].st = "exists"
    /\ vm[v].agent = "running"
    /\ vm[v].power = "running"
    /\ vm' = [vm EXCEPT ![v].agent = "exited",
                        ![v].power = IF shutdownVM(s) = "ok" THEN "stopped" ELSE "running"]
    /\ UNCHANGED <<claim, queue, requeueAfter, faults, history, running, listing, orphan,
                   restVars>>

\* The tags of VM v come to name another owner (its id is taken over by a
\* VM of another operator instance, or by one HyperFleet does not manage).
ForeignRetag(v, marker) ==
    /\ vm[v].st = "exists"
    /\ Owned(vm, v)
    /\ vm' = [vm EXCEPT ![v].managedBy = marker,
                        ![v].operatorUID = IF marker = "hyperfleet" THEN OtherOperatorUID
                                           ELSE vm[v].operatorUID]
    /\ UNCHANGED <<claim, queue, requeueAfter, faults, history, running, listing, orphan,
                   restVars>>

\* the engine has a run, a monitor tick or an orphan pass in progress
Busy == running # {} \/ listing # NoListing \/ orphan # NoOrphans

\* The engine crashes and restarts: the runs, the tick and the pass in
\* progress are lost, its queue is rebuilt from the store and the pending
\* requeue timers are lost.  A crash in the middle of work is a failure f.
Restart(f) ==
    /\ f = IF Busy THEN "crash" ELSE "none"
    /\ Fault(f)
    /\ running' = {}
    /\ listing' = NoListing
    /\ orphan' = NoOrphans
    /\ queue' = {c \in Claims : claim[c].present}
    /\ requeueAfter' = [c \in Claims |-> 0]
    /\ Busy \/ queue' # queue \/ requeueAfter' # requeueAfter
    /\ UNCHANGED <<claim, vm, history, restVars>>

\* the steps of the run r under the failures F
ReconcileSteps(r, F) ==
    \/ \E f \in F : ReconcileGet(r, f)
    \/ \E f \in F : ReconcileGetVMStatus(r, f)
    \/ \E f \in F, sig \in Signals : ReconcileUpdateVMStatus(r, f, sig)
    \/ \E f \in F : CreateVMCreate(r, f)
    \/ \E f \in F : CreateVMTag(r, f)
    \/ \E ok \in BOOLEAN : CreateVMCleanup(r, ok)
    \/ \E f \in F : ReconcileUpdateStatus(r, f)
    \/ handleVMShutdownValidate(r)
    \/ \E f \in F : handleVMShutdownDelete(r, f)
    \/ handleVMShutdownCleanupFailed(r)
    \/ \E f \in F : handleVMShutdownStatusUpdate(r, f)
    \/ \E f \in F : handleVMShutdownAPIDelete(r, f)
    \/ deleteVMValidate(r)
    \/ handleDeletionOwnershipFailed(r)
    \/ \E f \in F : deleteVMDelete(r, f)
    \/ handleDeletionCleanupFailed(r)
    \/ \E f \in F : handleDeletionFinalize(r, f)
    \/ WorkerReturn(r)
    \/ MonitorReturn(r)

\* the steps of the monitor's loop
MonitorSteps(F) ==
    \/ \E f \in F : reconcileVMStates(f)
    \/ \E c \in Claims, f \in F : MonitorVisit(c, f)

\* the steps of a pass over the hypervisor's VMs
OrphanSteps(F) ==
    \/ \E f \in F : reconcileOrphanedVMs(f)
    \/ \E v \in VMIds : handleOrphanedVM(v)
    \/ \E v \in VMIds : handleOrphanedVMValidate(v)
    \/ \E v \in VMIds, f \in F : handleOrphanedVMDelete(v, f)

\* the steps of the engine under the failures F: the workers, the runs in
\* progress and the monitor.  Nothing in the listings calls
\* reconcileOrphanedVMs, so the engine as listed never starts a pass.
EngSteps(F) ==
    \/ \E c \in Claims : WorkerBegin(c)
    \/ \E r \in running : ReconcileSteps(r, F)
    \/ MonitorSteps(F)

EnvSteps(F) ==
    \/ \E c \in Claims : UserDelete(c)
    \/ \E v \in VMIds, s \in [Strategies -> BOOLEAN] : AgentFinishes(v, s)
    \/ \E v \in VMIds, m \in {"hyperfleet", "none"} : ForeignRetag(v, m)
    \/ \E f \in F : Restart(f)

\* every failure, and none
AnyFault == FaultKinds \cup {"none"}

EngNext == EngSteps(AnyFault) \/ EnvSteps(AnyFault)

SpecEngine == EngInit /\ [][EngNext]_vars

\* the engine with a caller of reconcileOrphanedVMs that starts a pass at
\* any time
OrphanNext == EngNext \/ OrphanSteps(AnyFault)

SpecOrphans == EngInit /\ [][OrphanNext]_vars

\* the VMs the provider created for claim c, deleted ones included
VMsOf(c) == {v \in VMIds : vm[v].st # "free" /\ vm[v].claim = c}

\* this step is a GetVMStatus call on VM v, by a run of Reconcile or by the
\* monitor's loop
IssuesGetVMStatus(v) ==
    \/ \E r \in running, f \in AnyFault : r.v = v /\ ReconcileGetVMStatus(r, f)
    \/ \E c \in Claims, f \in AnyFault : listing[c] = v /\ MonitorVisit(c, f)

\* this step is a DeleteVM call of handleVMShutdown or deleteVM on the VM
\* the run r works on
RunDeletesVM(r) ==
    \E f \in AnyFault : handleVMShutdownDelete(r, f) \/ deleteVMDelete(r, f)

\* this step is a DeleteVM call on VM v
IssuesDeleteVM(v) ==
    \/ \E r \in running : r.v = v /\ RunDeletesVM(r)
    \/ \E r \in running, ok \in BOOLEAN : r.v = v /\ CreateVMCleanup(r, ok)
    \/ \E f \in AnyFault : handleOrphanedVMDelete(v, f)

(***************************************************************************)
(* C2.  Fail-closed ownership: for a VM whose tags do not match this       *)
(* operator, DeleteVM is never attempted, and a claim for which the        *)
(* ownership validation reported the mismatch is Failed with a non-empty   *)
(* error message once the handler that met the mismatch has returned.      *)
(***************************************************************************)
C2_FailClosedOwnership ==
    /\ [][\A r \in running : RunDeletesVM(r) => ~Foreign(vm, r.v)]_vars
    /\ [](\A c \in denied :
            (\A r \in running : r.c = c => r.pc # "OwnershipFailed") =>
                (claim[c].phase = "Failed" /\ claim[c].message # ""))

(***************************************************************************)
(* C3.  Idempotent create: however often a claim is reconciled, across     *)
(* restarts of the engine too, the provider creates at most one VM for it, *)
(* and a claim with a populated VM reference has exactly the VM it refers  *)
(* to.                                                                     *)
(***************************************************************************)
C3_IdempotentCreate ==
    \A c \in Claims :
        /\ Cardinality(VMsOf(c)) <= 1
        /\ claim[c].vmRef # NoVM => VMsOf(c) = {claim[c].vmRef}

(***************************************************************************)
(* C4.  For each VM exactly one DeleteVM call occurs (never a second one), *)
(* and only after ValidateVMOwnership succeeded in the same run.           *)
(***************************************************************************)
C4_ExactlyOneDeleteCall ==
    /\ [][\A r \in running : RunDeletesVM(r) => r.val = r.v]_vars
    /\ [](\A v \in VMIds : deleteCalls[v] <= 1)

\* C4 as the code has it: every DeleteVM call that handleVMShutdown or
\* deleteVM issues comes after ValidateVMOwnership succeeded for the same VM
\* in the same run; DeleteVM may be called again for a VM (a failed call is
\* retried, and a run of the monitor and a run of a worker may each call
\* it), but a VM that is deleted stays deleted, so at most one call succeeds.
C4_DeleteOnlyAfterValidation ==
    /\ [][\A r \in running : RunDeletesVM(r) => (r.val = r.v /\ r.v # NoVM)]_vars
    /\ [][\A v \in VMIds : vm[v].st = "deleted" => vm'[v].st = "deleted"]_vars

\* a VM was deleted at the second DeleteVM call although no call had failed
\* and no crash had happened: two runs each validated it and called DeleteVM
C4_TwoDeleteCalls ==
    \E v \in VMIds : deleteCalls[v] = 2 /\ vm[v].st = "deleted" /\ faults = 0

(***************************************************************************)
(* C5.  No lifecycle operation (power-state status check, delete) is       *)
(* issued on a VM whose ownership tags do not both match the caller.       *)
(***************************************************************************)
C5_NoOperationOnForeignVM ==
    [][\A v \in VMIds : (IssuesGetVMStatus(v) \/ IssuesDeleteVM(v)) => ~Foreign(vm, v)]_vars

(***************************************************************************)
(* C6.  The deletion guard of a claim is cleared only when every VM that   *)
(* was created for the claim has been deleted, and a record is removed     *)
(* only with its guard cleared: no record disappears while a VM of the     *)
(* claim exists on the hypervisor.                                         *)
(***************************************************************************)
C6_GuardOutlivesVM ==
    \A c \in Claims :
        /\ ~claim[c].finalizer => \A v \in VMsOf(c) : vm[v].st = "deleted"
        /\ ~claim[c].present => ~claim[c].finalizer

(***************************************************************************)
(* Scheduling.  A worker of the controller runtime takes every claim that  *)
(* stays in the work queue, a run in progress makes its next call, and the *)
(* monitor's ticker fires every MonitorIntervalSeconds, so its loop        *)
(* reaches every listed claim.  Nothing in the listings calls              *)
(* reconcileOrphanedVMs, so no pass over the VMs is promised.              *)
(***************************************************************************)
Fairness(F) ==
    /\ \A c \in Claims : WF_vars(WorkerBegin(c))
    /\ \A w \in Callers, c \in Claims :
          WF_vars(\E r \in running : r.who = w /\ r.c = c /\ ReconcileSteps(r, F))
    /\ WF_vars(MonitorSteps(F))

\* the engine with transient failures (at most MaxFaults of them) and with
\* VMs that change owner
FairEngine == EngInit /\ [][EngNext]_vars /\ Fairness(AnyFault)

\* the engine when no call fails
QuietNext == EngSteps({"none"}) \/ EnvSteps({"none"})

FairEngineNoFaults == EngInit /\ [][QuietNext]_vars /\ Fairness({"none"})

\* this step is a DeleteVM call of the run r that the provider failed
FailedDelete(r) ==
    /\ handleVMShutdownDelete(r, "delete") \/ deleteVMDelete(r, "delete")
    /\ vm'[r.v].st = "exists"

\* this step is the status write of the run r that follows a failed DeleteVM
RecordsFailedDelete(r) ==
    handleVMShutdownCleanupFailed(r) \/ handleDeletionCleanupFailed(r)

\* the VM the claim refers to is still on the hypervisor under this
\* operator's tags
RefersToOwnVM(c) ==
    /\ claim[c].vmRef # NoVM
    /\ vm[claim[c].vmRef].st = "exists"
    /\ Owned(vm, claim[c].vmRef)

(***************************************************************************)
(* C7.  When the provider fails to delete a claim's VM, the deletion guard *)
(* remains, the failure condition is recorded on the record (if it is      *)
(* still stored), the run of Reconcile returns RequeueAfter 2 minutes and, *)
(* whoever called that run, the claim is then back in the work queue with  *)
(* the 2-minute delay; and a claim whose cleanup failed is not abandoned:  *)
(* once the failures stop, its VM is deleted (unless the VM has come to    *)
(* carry foreign tags).                                                    *)
(***************************************************************************)
C7_FailedDeleteIsRetried ==
    /\ [][\A r \in running : FailedDelete(r) =>
            /\ claim'[r.c].finalizer
            /\ claim'[r.c].present
            /\ \E r2 \in running' :
                  /\ r2.who = r.who /\ r2.c = r.c
                  /\ r2.pc \in {"updateCleanupFailedStatus", "CleanupFailed"}]_vars
    /\ [][\A r \in running : RecordsFailedDelete(r) =>
            /\ claim'[r.c].finalizer = claim[r.c].finalizer
            /\ claim[r.c].present =>
                  (claim'[r.c].present /\ "CleanupFailed" \in claim'[r.c].conds)
            /\ \E r2 \in running' :
                  /\ r2.who = r.who /\ r2.c = r.c
                  /\ r2.pc = "return" /\ r2.res = "requeue"]_vars
    /\ [][\A r \in running :
            (r.pc = "return" /\ r.res = "requeue" /\ (WorkerReturn(r) \/ MonitorReturn(r))) =>
                /\ requeueAfter'[r.c] = RequeueAfterMinutes
                /\ r.c \in queue']_vars
    /\ \A c \in Claims : ("CleanupFailed" \in claim[c].conds) ~> ~RefersToOwnVM(c)

\* the VM of claim c is on the hypervisor and reports stopped
StoppedVM(c) ==
    /\ claim[c].present
    /\ claim[c].vmRef # NoVM
    /\ vm[claim[c].vmRef].st = "exists"
    /\ IsShutdownState(vm[claim[c].vmRef].power)

(***************************************************************************)
(* C8.  Shutdown-to-cleanup: when no call fails, a claim whose own VM      *)
(* reports stopped becomes Terminating, and the VM and the claim record    *)
(* are then removed.                                                       *)
(***************************************************************************)
C8_ShutdownToCleanup ==
    \A c \in Claims :
        (StoppedVM(c) /\ RefersToOwnVM(c)) ~>
            (\/ ~claim[c].present /\ claim[c].vmRef # NoVM
                                   /\ vm[claim[c].vmRef].st = "deleted"
             \/ claim[c].vmRef # NoVM /\ Foreign(vm, claim[c].vmRef))

(***************************************************************************)
(* C9.  After the runner has finished and the agent has exited, the VM     *)
(* eventually disappears from the hypervisor, whatever the outcome of the  *)
(* agent's shutdown strategies (unless the VM has come to carry foreign    *)
(* tags).                                                                  *)
(***************************************************************************)
C9_VMEventuallyDisappears ==
    \A v \in VMIds :
        (vm[v].st = "exists" /\ vm[v].agent = "exited" /\ Owned(vm, v))
            ~> (vm[v].st # "exists" \/ ~Owned(vm, v))

\* this step was taken by the monitor: by its loop, or by the run of
\* Reconcile it called
MonitorStep ==
    \/ listing' # listing
    \/ \E r \in running, r2 \in running' :
          r.who = "monitor" /\ r2.who = "monitor" /\ r \notin running'

(***************************************************************************)
(* C10.  A step of the VM State Monitor only enqueues: it calls no         *)
(* DeleteVM, changes no claim's status and deletes no claim record.        *)
(***************************************************************************)
C10_MonitorOnlyEnqueues ==
    [][MonitorStep => (claim' = claim /\ vm' = vm /\ deleteCalls' = deleteCalls)]_vars

(***************************************************************************)
(* C11.  Two runs of Reconcile for the same MachineClaim are never in      *)
(* progress at the same time, a run the monitor started while a run from   *)
(* the work queue is going on included.                                    *)
(***************************************************************************)
C11_OneRunPerClaim ==
    \A c \in Claims : Cardinality({r \in running : r.c = c}) <= 1

\* the phases in the order of the lifecycle (design.md lines 2323-2329);
\* Failed stands outside the order
PhaseOrder == <<"Pending", "Provisioning", "Bootstrapping", "Ready", "Draining",
                "Terminating">>

PhaseRank(p) == CHOOSE i \in 1..Len(PhaseOrder) : PhaseOrder[i] = p

(***************************************************************************)
(* C12.  A claim's phase only moves forward along Pending, Provisioning,   *)
(* Bootstrapping, Ready, Draining, Terminating; Failed is entered from any *)
(* phase and Terminating from any phase, and no other step takes a claim   *)
(* to an earlier phase.                                                    *)
(***************************************************************************)
C12_PhaseMovesForward ==
    [][\A c \in Claims :
         \/ claim'[c].phase = claim[c].phase
         \/ claim'[c].phase \in {"Terminating", "Failed"}
         \/ /\ claim[c].phase # "Failed"
            /\ PhaseRank(claim[c].phase) < PhaseRank(claim'[c].phase)]_vars

\* a claim has moved from Pending through Provisioning to Ready, and its
\* stopped VM has then taken it to Terminating
C12_ReadyThenTerminating ==
    \E c \in Claims :
        /\ claim[c].phase = "Terminating"
        /\ ~claim[c].deletionTimestamp
        /\ claim[c].vmRef # NoVM

(***************************************************************************)
(* The bootstrap agent's process: main, Run, cleanup, shutdownVM and       *)
(* shutdownViaCommand (main.go lines 94-173 and 345-531), one step per     *)
(* call that can fail.  downloadGitHubRunner is one call here; its         *)
(* extraction loop is the subject of SpecExtract.                          *)
(***************************************************************************)
ShutdownCommandCount == 8       \* the entries of shutdownCommands

Methods == {"runner-token", "join-token", "other"}

RunSteps == {"download", "configure", "run"}

Removals == {"removeInstall", "removeWork"}

StrategyOrder == <<"syscall", "sysrq", "powerstate", "command">>

\* the results a call of Run can have
StepOutcomes(step) ==
    IF step = "download" THEN {"ok", "download failed", "extract failed"}
    ELSE {"ok", "failed"}

\* a call made by the agent: what was called, the index of the command for
\* shutdownViaCommand, the result, and the arguments of an executed script
Attempt(op, n, res) == [op |-> op, n |-> n, res |-> res, args |-> <<>>]

\* strings.Join, as tokens
RECURSIVE JoinStrings(_, _)
JoinStrings(elems, sep) ==
    IF elems = <<>> THEN <<>>
    ELSE IF Len(elems) = 1 THEN <<elems[1]>>
    ELSE <<elems[1], sep>> \o JoinStrings(Tail(elems), sep)

DefaultWorkDir == "/tmp/runner-work"

ConfigureArgsNotEphemeral(cfg) ==
    <<"--url", cfg.url, "--token", cfg.token, "--name", cfg.name,
      "--labels", JoinStrings(cfg.labels, ","),
      "--work", IF cfg.workDir = "" THEN DefaultWorkDir ELSE cfg.workDir,
      "--unattended">>

\* configureRunner, main.go lines 286-306: the arguments of the configure
\* script
ConfigureArgs(cfg) ==
    <<"--url", cfg.url, "--token", cfg.token, "--name", cfg.name,
      "--labels", JoinStrings(cfg.labels, ","),
      "--work", IF cfg.workDir = "" THEN DefaultWorkDir ELSE cfg.workDir,
      "--unattended", "--ephemeral">>

\* the call a step of Run makes: configureRunner executes the configure
\* script once (lines 308-315)
StepCall(step, res, cfg) ==
    IF step = "configure"
    THEN [Attempt(step, 0, res) EXCEPT !.args = ConfigureArgs(cfg)]
    ELSE Attempt(step, 0, res)

shutdownCommandsRootFirst ==
    << <<"shutdown", "-h", "now">>, <<"sudo", "shutdown", "-h", "now">>,
       <<"poweroff">>, <<"sudo", "poweroff">>,
       <<"halt", "-p">>, <<"sudo", "halt", "-p">>,
       <<"systemctl", "poweroff">>, <<"sudo", "systemctl", "poweroff">> >>

\* shutdownCommands, main.go lines 503-512
shutdownCommands ==
    << <<"sudo", "shutdown", "-h", "now">>, <<"shutdown", "-h", "now">>,
       <<"sudo", "poweroff">>, <<"poweroff">>,
       <<"sudo", "halt", "-p">>, <<"halt", "-p">>,
       <<"sudo", "systemctl", "poweroff">>, <<"systemctl", "poweroff">> >>

\* the command that the i-th iteration of shutdownViaCommand executes
\* (main.go lines 515-519)
CommandCall(i, res) == [Attempt("command", i, res) EXCEPT !.args = shutdownCommands[i]]

shutdownViaSyscallRebootsFirst(rebootOK) ==
    [calls |-> <<Attempt("reboot", 0, IF rebootOK THEN "ok" ELSE "failed"),
                 Attempt("sync", 0, "ok")>>,
     ok    |-> rebootOK]

\* shutdownViaSyscall, main.go lines 411-425: Sync, then Reboot(POWER_OFF),
\* and the error exactly when Reboot returned one
shutdownViaSyscall(rebootOK) ==
    [calls |-> <<Attempt("sync", 0, "ok"),
                 Attempt("reboot", 0, IF rebootOK THEN "ok" ELSE "failed")>>,
     ok    |-> rebootOK]

\* the error Run wraps a failed step in, main.go lines 157-169
RunError(step) ==
    CASE step = "download"  -> "failed to download runner"
      [] step = "configure" -> "failed to configure runner"
      [] step = "run"       -> "failed to run runner"

AfterRunStepCleansUpOnFailure(step, res) ==
    IF res # "ok" THEN "removeInstall"
    ELSE CASE step = "download"  -> "configure"
           [] step = "configure" -> "run"
           [] step = "run"       -> "removeInstall"

AfterRunStepSkipsConfigure(step, res) ==
    IF res # "ok" THEN "fatal"
    ELSE CASE step = "download"  -> "run"
           [] step = "configure" -> "run"
           [] step = "run"       -> "removeInstall"

AfterRunStepIgnoresError(step, res) ==
    CASE step = "download"  -> "configure"
      [] step = "configure" -> "run"
      [] step = "run"       -> "removeInstall"

\* Run, main.go lines 153-173: an error of a step is returned at once, and
\* cleanup is entered after runAndMonitor returned nil
AfterRunStep(step, res) ==
    IF res # "ok" THEN "fatal"
    ELSE CASE step = "download"  -> "configure"
           [] step = "configure" -> "run"
           [] step = "run"       -> "removeInstall"

AfterRemoveAllFatal(step, ok) ==
    IF ~ok THEN "return"
    ELSE IF step = "removeInstall" THEN "removeWork" ELSE "sleep"

\* cleanup, main.go lines 359-369: a failed RemoveAll is logged
AfterRemoveAll(step, ok) ==
    IF step = "removeInstall" THEN "removeWork" ELSE "sleep"

AfterStrategyKeepsGoing(step, ok) ==
    CASE step = "syscall"    -> "sysrq"
      [] step = "sysrq"      -> "powerstate"
      [] step = "powerstate" -> "command"

\* shutdownVM, main.go lines 387-407: nil at the first method that returns
\* nil, else the next method
AfterStrategy(step, ok) ==
    IF ok THEN "return"
    ELSE CASE step = "syscall"    -> "sysrq"
           [] step = "sysrq"      -> "powerstate"
           [] step = "powerstate" -> "command"

FirstErr(prev, i) == IF prev = 0 THEN i ELSE prev

\* shutdownViaCommand, main.go line 522: lastErr = err
LastErr(prev, i) == i

AfterCommandNeverGivesUp(i, ok) == IF ok THEN "return" ELSE "command"

\* shutdownViaCommand, main.go lines 515-530: the loop returns nil at the
\* first command that runs, and the error after the last one
AfterCommand(i, ok) ==
    IF ok \/ i = ShutdownCommandCount THEN "return" ELSE "command"

\* shutdownViaCommand, main.go line 530
AllFailed(last) == [msg |-> "all shutdown methods failed, last error", last |-> last]

CleanupPropagates(shutErr) == shutErr.msg

\* cleanup, main.go lines 374-383: nil whatever shutdownVM returned
CleanupReturns(shutErr) == ""

\* the configurations the agent is started with
SpiffeConfigs ==
    {[enabled |-> en, joinToken |-> jt, spiffeID |-> id] :
        en \in BOOLEAN, jt \in {"", "join-1"}, id \in {"", "spiffe://td/runner"}}

AgentConfigs ==
    {[DefaultConfig EXCEPT !.labels = l, !.workDir = w, !.method = me, !.spiffe = sp] :
        l \in {<<>>, <<"self-hosted">>, <<"self-hosted", "linux">>},
        w \in {"", "/tmp/w"},
        me \in Methods,
        sp \in {x \in SpiffeConfigs : x.enabled \/ (x.joinToken = "" /\ x.spiffeID = "")}}

performSPIFFEAttestationLenient(spiffe) == ""

\* performSPIFFEAttestation, main.go lines 534-551: the error ("" = nil)
performSPIFFEAttestation(spiffe) ==
    IF spiffe.joinToken = "" /\ spiffe.spiffeID = ""
    THEN "SPIFFE attestation enabled but no join token or SPIFFE ID provided"
    ELSE ""

AgInit == ExIdle /\ EngIdle /\ InfIdle /\ AgStart /\ agCfg \in AgentConfigs

\* log.Fatalf: the message is logged and the process exits with status 1
Fatal(msg) ==
    /\ agPc' = "exited"
    /\ agExit' = "exit 1"
    /\ agErr' = msg

\* main, lines 94-133, up to the call of Run
AgMain(loaded) ==
    /\ agPc = "main"
    /\ IF ~loaded THEN Fatal("Failed to load config")
       ELSE IF agCfg.method = "join-token"
            THEN Fatal("Pure SPIFFE/SPIRE bootstrap not yet implemented")
       ELSE IF agCfg.method # "runner-token" THEN Fatal("Unsupported attestation method")
       ELSE IF agCfg.spiffe.enabled /\ performSPIFFEAttestation(agCfg.spiffe) # ""
            THEN Fatal("SPIFFE attestation failed")
       ELSE /\ agPc' = "download"
            /\ UNCHANGED <<agExit, agErr>>
    /\ UNCHANGED <<agTrace, agCmd, agLastErr, agShutErr, agDirs, agPowerOff>>
    /\ UNCHANGED <<exVars, engVars, infVars, agCfg>>

\* Run, lines 153-170: downloadGitHubRunner, configureRunner or
\* runAndMonitor is called and returns res; an error goes to log.Fatalf in
\* main (line 124)
AgRunStep(res) ==
    /\ agPc \in RunSteps
    /\ res \in StepOutcomes(agPc)
    /\ agTrace' = Append(agTrace, StepCall(agPc, res, agCfg))
    /\ IF AfterRunStep(agPc, res) = "fatal"
       THEN Fatal(RunError(agPc))
       ELSE /\ agPc' = AfterRunStep(agPc, res)
            /\ UNCHANGED <<agExit, agErr>>
    /\ UNCHANGED <<agCmd, agLastErr, agShutErr, agDirs, agPowerOff>>
    /\ UNCHANGED <<exVars, engVars, infVars, agCfg>>

\* cleanup, lines 359-366: RemoveAll of the install path, then of the work
\* directory
AgRemoveAll(ok) ==
    /\ agPc \in Removals
    /\ agTrace' = Append(agTrace, Attempt(agPc, 0, IF ok THEN "ok" ELSE "failed"))
    /\ agDirs' = IF ok THEN agDirs \ {IF agPc = "removeInstall" THEN "install" ELSE "work"}
                 ELSE agDirs
    /\ agPc' = AfterRemoveAll(agPc, ok)
    /\ UNCHANGED <<agCmd, agLastErr, agShutErr, agErr, agExit, agPowerOff>>
    /\ UNCHANGED <<exVars, engVars, infVars, agCfg>>

\* cleanup, line 369: Sleep, then shutdownVM is entered
AgSleep ==
    /\ agPc = "sleep"
    /\ agTrace' = Append(agTrace, Attempt("sleep", 0, "ok"))
    /\ agPc' = "syscall"
    /\ UNCHANGED <<agCmd, agLastErr, agShutErr, agErr, agExit, agDirs, agPowerOff>>
    /\ UNCHANGED <<exVars, engVars, infVars, agCfg>>

\* shutdownVM, lines 388-404: shutdownViaSyscall, shutdownViaSysRq or
\* shutdownViaPowerState is called; the system calls of shutdownViaSyscall
\* are recorded before its result
AgStrategy(ok) ==
    /\ agPc \in {"syscall", "sysrq", "powerstate"}
    /\ LET r == IF agPc = "syscall" THEN shutdownViaSyscall(ok)
                ELSE [calls |-> <<>>, ok |-> ok]
       IN  /\ agTrace' = Append(agTrace \o r.calls,
                                Attempt(agPc, 0, IF r.ok THEN "ok" ELSE "failed"))
           /\ agPowerOff' = (agPowerOff \/ r.ok)
           /\ agPc' = AfterStrategy(agPc, r.ok)
    /\ UNCHANGED <<agCmd, agLastErr, agShutErr, agErr, agExit, agDirs>>
    /\ UNCHANGED <<exVars, engVars, infVars, agCfg>>

\* shutdownViaCommand, lines 515-530: one iteration of the loop over
\* shutdownCommands; shutdownVM returns what it returns (line 407)
AgCommand(ok) ==
    /\ agPc = "command"
    /\ agCmd <= ShutdownCommandCount
    /\ agTrace' = Append(agTrace, CommandCall(agCmd, IF ok THEN "ok" ELSE "failed"))
    /\ agPowerOff' = (agPowerOff \/ ok)
    /\ agLastErr' = IF ok THEN agLastErr ELSE LastErr(agLastErr, agCmd)
    /\ agCmd' = agCmd + 1
    /\ agPc' = AfterCommand(agCmd, ok)
    /\ agShutErr' = IF ~ok /\ agPc' = "return" THEN AllFailed(agLastErr') ELSE NoError
    /\ UNCHANGED <<agErr, agExit, agDirs>>
    /\ UNCHANGED <<exVars, engVars, infVars, agCfg>>

\* cleanup returns (lines 374-383), Run returns its result (line 172), and
\* main exits: with status 0 after a nil, through log.Fatalf after an error
AgReturn ==
    /\ agPc = "return"
    /\ agPc' = "exited"
    /\ agErr' = CleanupReturns(agShutErr)
    /\ agExit' = IF agErr' = "" THEN "exit 0" ELSE "exit 1"
    /\ UNCHANGED <<agTrace, agCmd, agLastErr, agShutErr, agDirs, agPowerOff>>
    /\ UNCHANGED <<exVars, engVars, infVars, agCfg>>

AgNext ==
    \/ \E loaded \in BOOLEAN : AgMain(loaded)
    \/ \E res \in {"ok", "failed", "download failed", "extract failed"} : AgRunStep(res)
    \/ \E ok \in BOOLEAN : AgRemoveAll(ok)
    \/ AgSleep
    \/ \E ok \in BOOLEAN : AgStrategy(ok)
    \/ \E ok \in BOOLEAN : AgCommand(ok)
    \/ AgReturn

SpecAgent == AgInit /\ [][AgNext]_vars

\* every call the agent makes returns
FairAgent == SpecAgent /\ WF_vars(AgNext)

\* the calls of the shutdown chain among the calls made so far
IsShutdownAttempt(a) == a.op \in Strategies

ShutdownAttempts == SelectSeq(agTrace, IsShutdownAttempt)

\* the i-th call of the chain when everything before it failed
ChainOp(i) == IF i <= 3 THEN StrategyOrder[i] ELSE "command"

ChainCmd(i) == IF i <= 3 THEN 0 ELSE i - 3

IndicesOf(ops) == {i \in 1..Len(agTrace) : agTrace[i].op \in ops}

FailedIn(ops) == {i \in IndicesOf(ops) : agTrace[i].res # "ok"}

(***************************************************************************)
(* C13.  shutdownVM tries its strategies in the order syscall, SysRq,      *)
(* power management, external commands: a strategy is attempted only       *)
(* after every earlier one failed, and none after one succeeded.           *)
(***************************************************************************)
C13_StrategiesInOrder ==
    /\ Len(ShutdownAttempts) <= 3 + ShutdownCommandCount
    /\ \A i \in 1..Len(ShutdownAttempts) :
          /\ ShutdownAttempts[i].op = ChainOp(i)
          /\ ShutdownAttempts[i].n = ChainCmd(i)
          /\ i < Len(ShutdownAttempts) => ShutdownAttempts[i].res # "ok"

\* syscall and SysRq failed, the power-management strategy succeeded and
\* the agent has exited
C13_ThirdStrategySucceeded ==
    /\ agExit # "running"
    /\ Len(ShutdownAttempts) = 3
    /\ ShutdownAttempts[3].res = "ok"

(***************************************************************************)
(* C14.  When all four strategies fail, shutdownVM returns the aggregate   *)
(* error, which carries the error of the last command tried; and both      *)
(* RemoveAll calls of cleanup were made before the first strategy was      *)
(* attempted.                                                              *)
(***************************************************************************)
C14_AggregateErrorAfterRemovals ==
    /\ agShutErr # NoError =>
          /\ agShutErr = AllFailed(ShutdownCommandCount)
          /\ Len(ShutdownAttempts) = 3 + ShutdownCommandCount
          /\ \A i \in 1..Len(ShutdownAttempts) : ShutdownAttempts[i].res # "ok"
    /\ IndicesOf(Strategies) # {} =>
          /\ IndicesOf({"removeInstall"}) # {}
          /\ IndicesOf({"removeWork"}) # {}
          /\ \A i \in IndicesOf(Removals), j \in IndicesOf(Strategies) : i < j

\* every strategy and every command failed
C14_AllFourFailed == agShutErr # NoError /\ agPc = "return"

(***************************************************************************)
(* C15.  When all four shutdown strategies fail after the runner           *)
(* completed, the agent still exits with status 0: cleanup and Run return  *)
(* no error.                                                               *)
(***************************************************************************)
C15_ExitZeroWhenShutdownFails ==
    (agExit # "running" /\ agShutErr # NoError) => (agExit = "exit 0" /\ agErr = "")

\* the agent has exited after a shutdown chain in which nothing worked
C15_ExitedWithoutShutdown ==
    /\ agExit = "exit 0"
    /\ agShutErr # NoError
    /\ ~agPowerOff

\* runAndMonitor has returned nil
RunnerCompleted == \E i \in IndicesOf({"run"}) : agTrace[i].res = "ok"

(***************************************************************************)
(* C16.  The agent does not hang: once the run step has completed, the     *)
(* shutdown chain makes at most three strategy attempts and at most eight  *)
(* command attempts, and the process exits, whether or not a strategy      *)
(* succeeded.                                                              *)
(***************************************************************************)
C16_AgentTerminates ==
    /\ [](/\ Cardinality(IndicesOf({"syscall", "sysrq", "powerstate"})) <= 3
          /\ Cardinality(IndicesOf({"command"})) <= ShutdownCommandCount)
    /\ RunnerCompleted ~> (agExit = "exit 0")

\* the process has exited after the longest chain: three strategies and
\* eight commands were tried
C16_ExitedAfterLongestChain ==
    /\ agPc = "exited"
    /\ Cardinality(IndicesOf({"command"})) = ShutdownCommandCount

(***************************************************************************)
(* C17.  A RemoveAll that fails in cleanup is only logged: the other       *)
(* removal is still attempted, the shutdown chain is still started, and    *)
(* cleanup returns no error.                                               *)
(***************************************************************************)
C17_RemovalFailureIsNotFatal ==
    (FailedIn(Removals) # {} /\ agExit # "running") =>
        /\ IndicesOf({"removeInstall"}) # {}
        /\ IndicesOf({"removeWork"}) # {}
        /\ IndicesOf({"syscall"}) # {}
        /\ agExit = "exit 0"
        /\ agErr = ""

\* the install directory could not be removed, and the agent has exited
C17_InstallDirLeftBehind ==
    /\ FailedIn({"removeInstall"}) # {}
    /\ "install" \in agDirs
    /\ agExit # "running"

(***************************************************************************)
(* C18.  When download (extraction included), configuration or run fails,  *)
(* the agent exits with a non-zero status and retries nothing: each of     *)
(* download, configure and run is attempted at most once in an execution,  *)
(* and nothing is attempted after the failure.                             *)
(***************************************************************************)
C18_FailFastNoRetry ==
    /\ \A step \in RunSteps : Cardinality(IndicesOf({step})) <= 1
    /\ FailedIn(RunSteps) # {} =>
          /\ agExit = "exit 1"
          /\ agErr # ""
          /\ FailedIn(RunSteps) = {Len(agTrace)}

\* the configuration of the runner failed
C18_ConfigureFailed ==
    /\ agExit = "exit 1"
    /\ FailedIn({"configure"}) # {}

\* the record of claim c is being terminated and refers to no VM
TerminatingWithoutVM(c) ==
    /\ claim[c].vmRef = NoVM
    /\ claim[c].deletionTimestamp \/ claim[c].phase = "Terminating"

\* the run r is in handleDeletion for a record without a VM reference
RunWithoutVM(r) == r.pc = "RemoveFinalizer" /\ r.v = NoVM

\* this step is the r.Get of the run r, for a stored record that is being
\* terminated and refers to no VM
GetsTerminatingWithoutVM(r, f) ==
    /\ claim[r.c].present
    /\ TerminatingWithoutVM(r.c)
    /\ ReconcileGet(r, f)

\* after this step the run of r.who on r.c has returned res
ReturnsWith(r, res) ==
    \E r2 \in running' : r2.who = r.who /\ r2.c = r.c /\ r2.pc = "return" /\ r2.res = res

(***************************************************************************)
(* C19.  Reconciling a Terminating claim that has no VM reference is a     *)
(* no-op success: every run of Reconcile on such a claim makes no provider *)
(* call (no validation, no delete, no status check), changes no VM and     *)
(* returns no error.                                                       *)
(***************************************************************************)
C19_TerminatingWithoutVMIsNoOp ==
    [][\A r \in running :
          /\ \A f \in AnyFault : GetsTerminatingWithoutVM(r, f) =>
                /\ vm' = vm /\ history' = history
                /\ \E r2 \in running' :
                      /\ r2.who = r.who /\ r2.c = r.c
                      /\ RunWithoutVM(r2)
          /\ \A f \in AnyFault : (RunWithoutVM(r) /\ handleDeletionFinalize(r, f)) =>
                /\ vm' = vm /\ history' = history
                /\ ReturnsWith(r, "ok")]_vars

(***************************************************************************)
(* C19 as the code has it: a run of Reconcile on a Terminating claim       *)
(* without a VM reference makes no provider call and changes no VM; it     *)
(* goes from r.Get straight to the clearing of the guard and returns       *)
(* success, unless the API server fails the run's r.Get or refuses its     *)
(* update of the record, in which case the run returns that error and      *)
(* leaves the record as it was.                                            *)
(***************************************************************************)
C19_NoProviderCallWithoutVM ==
    [][\A r \in running :
          /\ \A f \in AnyFault : GetsTerminatingWithoutVM(r, f) =>
                /\ vm' = vm /\ history' = history /\ claim' = claim
                /\ IF f = "get"
                   THEN ReturnsWith(r, "error")
                   ELSE \E r2 \in running' :
                           /\ r2.who = r.who /\ r2.c = r.c
                           /\ RunWithoutVM(r2)
          /\ \A f \in AnyFault : (RunWithoutVM(r) /\ handleDeletionFinalize(r, f)) =>
                /\ vm' = vm /\ history' = history
                /\ IF f = "none" /\ claim[r.c] = r.rec
                   THEN /\ ReturnsWith(r, "ok")
                        /\ ~claim'[r.c].finalizer
                   ELSE /\ ReturnsWith(r, "error")
                        /\ claim' = claim]_vars

\* a claim without a VM was deleted: its run cleared the guard, the record
\* is gone, and no VM was ever created or deleted for it
C19_DeletedBeforeProvisioning ==
    \E c \in Claims :
        /\ TerminatingWithoutVM(c)
        /\ claim[c].phase = "Terminating"
        /\ ~claim[c].present
        /\ VMsOf(c) = {}

(***************************************************************************)
(* C20.  After the ownership validation of a claim's VM has failed, the    *)
(* claim stays Failed and is not deleted by the engine: its record         *)
(* remains, and no DeleteVM is issued for its VM, however often the        *)
(* monitor finds the VM stopped afterwards.                                *)
(***************************************************************************)
C20_FailedClaimIsLeftAlone ==
    [][\A c \in denied :
         (\A r \in running \cup running' : r.c = c => r.pc # "OwnershipFailed") =>
             /\ claim'[c].present
             /\ claim'[c].phase = "Failed"
             /\ \A v \in VMsOf(c) : deleteCalls'[v] = deleteCalls[v]]_vars

(***************************************************************************)
(* C21.  A run of Reconcile that meets a configuration error (a template   *)
(* whose attestation or bootstrap configuration cannot be used, a missing  *)
(* secret) fails the claim with a condition and makes no hypervisor call:  *)
(* no VM is created, deleted or queried in that run.                       *)
(***************************************************************************)
C21_ConfigErrorFailsClaim ==
    [][\A r \in running :
         ReconcileGet(r, "config") =>
             /\ claim'[r.c].phase = "Failed"
             /\ claim'[r.c].conds # {}
             /\ vm' = vm
             /\ deleteCalls' = deleteCalls
             /\ \E r2 \in running' : r2.who = r.who /\ r2.c = r.c /\ r2.pc = "return"]_vars

(***************************************************************************)
(* The HypervisorCluster controller (HypervisorClusterReconciler, in       *)
(* src/cmd/bootstrap-service/test-runner.sh from line 102) and the         *)
(* HypervisorMachineTemplate controller                                    *)
(* (HypervisorMachineTemplateReconciler, in                                *)
(* src/internal/controller/hypervisorcluster_controller_test.go).  A       *)
(* condition is [type, status, reason]; Status.Conditions is a sequence.   *)
(***************************************************************************)
ClusterRequeueMinutes == 5      \* RequeueInterval

TemplateRequeueMinutes == 5     \* TemplateRequeueInterval

\* testConnection: everything worked, loadCredentials failed, CreateClient
\* failed, or TestConnection failed
ConnOutcomes == {"ok", "credentials", "client", "connection"}

TemplateSpecs == {"valid", "bad-template-id", "bad-cpu"}

Cond(type, status, reason) == [type |-> type, status |-> status, reason |-> reason]

\* a condition with its Message
CondMsg(type, status, reason, message) ==
    [type |-> type, status |-> status, reason |-> reason, message |-> message]

\* the status of the first condition of the type, "none" without one
StatusOf(conds, type) ==
    IF \E i \in 1..Len(conds) : conds[i].type = type
    THEN conds[CHOOSE i \in 1..Len(conds) :
                  /\ conds[i].type = type
                  /\ \A j \in 1..(i - 1) : conds[j].type # type].status
    ELSE "none"

HasCondition(conds, type, status) ==
    \E i \in 1..Len(conds) : conds[i].type = type /\ conds[i].status = status

SetConditionAppends(conds, c) == Append(conds, c)

\* the loop "update or add the condition" of updateStatus (test-runner.sh
\* lines 355-366) and of setTemplateValidCondition: the first condition of
\* the type is replaced, and without one the condition is appended
SetCondition(conds, c) ==
    IF \E i \in 1..Len(conds) : conds[i].type = c.type
    THEN LET k == CHOOSE i \in 1..Len(conds) :
                     /\ conds[i].type = c.type
                     /\ \A j \in 1..(i - 1) : conds[j].type # c.type
         IN  [conds EXCEPT ![k] = c]
    ELSE Append(conds, c)

testConnectionLeaksOnFailure(conn) ==
    [success |-> conn = "ok",
     created |-> IF conn \in {"ok", "connection"} THEN 1 ELSE 0,
     closed  |-> IF conn = "ok" THEN 1 ELSE 0]

testConnectionSkipsTest(conn) ==
    [success |-> conn \in {"ok", "connection"},
     created |-> IF conn \in {"ok", "connection"} THEN 1 ELSE 0,
     closed  |-> IF conn \in {"ok", "connection"} THEN 1 ELSE 0]

\* testConnection, test-runner.sh lines 198-258: the result, and the clients
\* created and closed (the deferred Close runs once a client exists)
testConnection(conn) ==
    [success |-> conn = "ok",
     created |-> IF conn \in {"ok", "connection"} THEN 1 ELSE 0,
     closed  |-> IF conn \in {"ok", "connection"} THEN 1 ELSE 0]

\* updateStatus of the cluster, test-runner.sh lines 337-369, before the write
clusterUpdateStatus(rec, success) ==
    [rec EXCEPT !.conds =
        SetCondition(rec.conds,
                     IF success THEN Cond("Ready", "True", "ConnectionSuccessful")
                     ELSE Cond("Ready", "False", "ConnectionFailed"))]

Run(who, path, result, after, tested, created, closed, before) ==
    [who |-> who, path |-> path, result |-> result, requeueAfter |-> after,
     tested |-> tested, created |-> created, closed |-> closed, before |-> before]

\* HypervisorClusterReconciler.Reconcile, test-runner.sh lines 167-195: the
\* record as stored when the run returns, and the run.  getOK: r.Get met no
\* error other than NotFound; updOK: r.Status().Update was accepted.
ClusterReconcileOutcome(rec, getOK, conn, updOK) ==
    IF ~getOK
    THEN [rec |-> rec, run |-> Run("cluster", "geterror", "error", 0, "none", 0, 0, "none")]
    ELSE IF ~rec.present
    THEN [rec |-> rec, run |-> Run("cluster", "notfound", "ok", 0, "none", 0, 0, "none")]
    ELSE LET t == testConnection(conn)
             tested == IF t.success THEN "ok" ELSE "failed"
             before == StatusOf(rec.conds, "Ready")
         IN  IF ~updOK
             THEN [rec |-> rec,
                   run |-> Run("cluster", "test", "error", 0, tested, t.created, t.closed, before)]
             ELSE [rec |-> clusterUpdateStatus(rec, t.success),
                   run |-> Run("cluster", "test", "ok", ClusterRequeueMinutes, tested,
                               t.created, t.closed, before)]

isClusterReadyAnyStatus(rec) ==
    \E i \in 1..Len(rec.conds) : rec.conds[i].type = "Ready"

\* isClusterReady, hypervisorcluster_controller_test.go lines 383-390
isClusterReady(rec) ==
    \E i \in 1..Len(rec.conds) :
        rec.conds[i].type = "Ready" /\ rec.conds[i].status = "True"

\* setTemplateValidCondition, hypervisorcluster_controller_test.go lines 393-410
setTemplateValidCondition(tpl, status, reason, message) ==
    [tpl EXCEPT !.conds =
        SetCondition(tpl.conds, CondMsg("TemplateValid", status, reason, message))]

\* validateWithProvider, lines 343-380: the error ("" = nil) and the clients
\* created and closed
validateWithProvider(spec, clientOK) ==
    IF ~clientOK
    THEN [err |-> "failed to create provider client", created |-> 0, closed |-> 0]
    ELSE IF spec = "bad-template-id"
    THEN [err |-> "invalid Proxmox template ID", created |-> 1, closed |-> 1]
    ELSE IF spec = "bad-cpu"
    THEN [err |-> "invalid CPU specification", created |-> 1, closed |-> 1]
    ELSE [err |-> "", created |-> 1, closed |-> 1]

validateTemplateReturnsProviderError(tpl, cl, clGet, clientOK) ==
    IF clGet = "error"
    THEN [tpl |-> tpl, err |-> "get failed", requeueAfter |-> 0, created |-> 0, closed |-> 0]
    ELSE IF ~cl.present
    THEN [tpl |-> setTemplateValidCondition(tpl, "False", "ClusterNotFound",
                                            "Referenced HypervisorCluster not found"),
          err |-> "", requeueAfter |-> TemplateRequeueMinutes, created |-> 0, closed |-> 0]
    ELSE IF ~isClusterReady(cl)
    THEN [tpl |-> setTemplateValidCondition(tpl, "False", "ClusterNotReady",
                                            "Referenced HypervisorCluster is not ready"),
          err |-> "", requeueAfter |-> TemplateRequeueMinutes, created |-> 0, closed |-> 0]
    ELSE LET v == validateWithProvider(tpl.spec, clientOK)
         IN  IF v.err # ""
             THEN [tpl |-> tpl, err |-> v.err, requeueAfter |-> 0,
                   created |-> v.created, closed |-> v.closed]
             ELSE [tpl |-> [setTemplateValidCondition(tpl, "True", "ValidationSucceeded",
                                                      "Template validation succeeded")
                               EXCEPT !.available = TRUE, !.validationStatus = "Valid"],
                   err |-> "", requeueAfter |-> TemplateRequeueMinutes,
                   created |-> v.created, closed |-> v.closed]

\* validateTemplate, lines 298-340: the template as changed in memory, the
\* error returned ("" = nil) and the RequeueAfter of the Result
validateTemplate(tpl, cl, clGet, clientOK) ==
    IF clGet = "error"
    THEN [tpl |-> tpl, err |-> "get failed", requeueAfter |-> 0, created |-> 0, closed |-> 0]
    ELSE IF ~cl.present
    THEN [tpl |-> setTemplateValidCondition(tpl, "False", "ClusterNotFound",
                                            "Referenced HypervisorCluster not found"),
          err |-> "", requeueAfter |-> TemplateRequeueMinutes, created |-> 0, closed |-> 0]
    ELSE IF ~isClusterReady(cl)
    THEN [tpl |-> setTemplateValidCondition(tpl, "False", "ClusterNotReady",
                                            "Referenced HypervisorCluster is not ready"),
          err |-> "", requeueAfter |-> TemplateRequeueMinutes, created |-> 0, closed |-> 0]
    ELSE LET v == validateWithProvider(tpl.spec, clientOK)
         IN  IF v.err # ""
             THEN [tpl |-> setTemplateValidCondition(tpl, "False", "ValidationFailed", v.err),
                   err |-> "", requeueAfter |-> TemplateRequeueMinutes,
                   created |-> v.created, closed |-> v.closed]
             ELSE [tpl |-> [setTemplateValidCondition(tpl, "True", "ValidationSucceeded",
                                                      "Template validation succeeded")
                               EXCEPT !.available = TRUE, !.validationStatus = "Valid"],
                   err |-> "", requeueAfter |-> TemplateRequeueMinutes,
                   created |-> v.created, closed |-> v.closed]

TemplateBranchSkipsFinalizer(tpl, getOK) ==
    IF ~getOK THEN "geterror"
    ELSE IF ~tpl.present THEN "notfound"
    ELSE IF tpl.deletionTimestamp THEN "deletion"
    ELSE "validate"

TemplateBranchByFinalizer(tpl, getOK) ==
    IF ~getOK THEN "geterror"
    ELSE IF ~tpl.present THEN "notfound"
    ELSE IF tpl.finalizer THEN "deletion"
    ELSE IF ~tpl.deletionTimestamp THEN "finalizer"
    ELSE "validate"

\* the branch that HypervisorMachineTemplateReconciler.Reconcile takes,
\* lines 228-269
TemplateBranch(tpl, getOK) ==
    IF ~getOK THEN "geterror"
    ELSE IF ~tpl.present THEN "notfound"
    ELSE IF tpl.deletionTimestamp THEN "deletion"
    ELSE IF ~tpl.finalizer THEN "finalizer"
    ELSE "validate"

\* HypervisorMachineTemplateReconciler.Reconcile with handleDeletion (lines
\* 281-295) and updateStatus (lines 413-418): the record as stored when the
\* run returns, and the run
TemplateReconcileOutcome(tpl, cl, getOK, clGet, clientOK, updOK) ==
    LET path == TemplateBranch(tpl, getOK)
        before == StatusOf(tpl.conds, "TemplateValid")
        failed == [rec |-> tpl, run |-> Run("template", path, "error", 0, "none", 0, 0, before)]
    IN  CASE path = "notfound" ->
               [rec |-> tpl, run |-> Run("template", path, "ok", 0, "none", 0, 0, before)]
          [] path = "geterror" -> failed
          [] path = "deletion" ->
               IF ~updOK THEN failed
               ELSE [rec |-> RemoveFinalizer(tpl),
                     run |-> Run("template", path, "ok", 0, "none", 0, 0, before)]
          [] path = "finalizer" ->
               IF ~updOK THEN failed
               ELSE [rec |-> [tpl EXCEPT !.finalizer = TRUE],
                     run |-> Run("template", path, "requeue", 0, "none", 0, 0, before)]
          [] path = "validate" ->
               LET v == validateTemplate(tpl, cl, clGet, clientOK)
               IN  IF v.err # "" \/ ~updOK
                   THEN [rec |-> tpl,
                         run |-> Run("template", path, "error", 0, "none",
                                     v.created, v.closed, before)]
                   ELSE [rec |-> v.tpl,
                         run |-> Run("template", path, "ok", v.requeueAfter, "none",
                                     v.created, v.closed, before)]

\* a record that the store has removed leaves nothing behind
StoredTemplate(rec) == IF rec.present THEN rec ELSE NoTemplate

\* the last two of the delays
LastTwo(d) == IF Len(d) <= 2 THEN d ELSE SubSeq(d, Len(d) - 1, Len(d))

InfInit == ExIdle /\ EngIdle /\ AgIdle /\ InfIdle

\* A HypervisorCluster is applied.
ClusterApply ==
    /\ ~cluster.present
    /\ cluster' = [present |-> TRUE, conds |-> <<>>]
    /\ UNCHANGED <<template, clusterRun, templateRun, infRun, clDelays>>
    /\ UNCHANGED <<exVars, engVars, agVars>>

\* The HypervisorCluster is deleted; this controller puts no finalizer on
\* it.  The object that a run in progress holds is not the stored one any
\* more.
ClusterRemove ==
    /\ cluster.present
    /\ cluster' = NoCluster
    /\ clDelays' = <<>>
    /\ clusterRun' = IF clusterRun.pc = "idle" THEN clusterRun
                     ELSE [clusterRun EXCEPT !.stale = TRUE]
    /\ UNCHANGED <<template, templateRun, infRun>>
    /\ UNCHANGED <<exVars, engVars, agVars>>

\* the cluster's Reconcile returns: the run is recorded, and so is its
\* RequeueAfter when its connection test failed
ClusterReturn(run) ==
    /\ infRun' = run
    /\ clusterRun' = NoClusterRun
    /\ clDelays' = IF run.path = "notfound" \/ run.tested = "ok" THEN <<>>
                   ELSE IF run.requeueAfter > 0
                        THEN LastTwo(Append(clDelays, run.requeueAfter))
                   ELSE clDelays

\* HypervisorClusterReconciler.Reconcile, test-runner.sh lines 170-180: a
\* run begins with r.Get; NotFound and any other error end it.
ClusterGet(getOK) ==
    /\ clusterRun.pc = "idle"
    /\ LET out == ClusterReconcileOutcome(cluster, getOK, "ok", TRUE)
       IN  IF out.run.path \in {"geterror", "notfound"}
           THEN ClusterReturn(out.run)
           ELSE /\ clusterRun' = [NoClusterRun EXCEPT !.pc = "testConnection",
                                                     !.rec = cluster]
                /\ UNCHANGED <<infRun, clDelays>>
    /\ UNCHANGED <<cluster, template, templateRun>>
    /\ UNCHANGED <<exVars, engVars, agVars>>

\* Reconcile, test-runner.sh line 185: testConnection (lines 198-258) reads
\* the secrets, creates the client, tests the connection and closes the
\* client; none of it reads or writes the cluster record.
ClusterTestConnection(conn) ==
    /\ clusterRun.pc = "testConnection"
    /\ clusterRun' = [clusterRun EXCEPT !.pc = "updateStatus", !.conn = conn]
    /\ UNCHANGED <<cluster, template, templateRun, infRun, clDelays>>
    /\ UNCHANGED <<exVars, engVars, agVars>>

\* Reconcile, test-runner.sh lines 188-194: updateStatus sets the Ready
\* condition on the object the run holds and writes it with
\* r.Status().Update (line 369), which the store refuses (updOK = FALSE)
\* when the stored record is not the one the run read, or for a failure of
\* its own; then the run returns.
ClusterUpdateStatus(updOK) ==
    /\ clusterRun.pc = "updateStatus"
    /\ clusterRun.stale => ~updOK
    /\ LET out == ClusterReconcileOutcome(clusterRun.rec, TRUE, clusterRun.conn, updOK)
       IN  /\ cluster' = IF updOK THEN out.rec ELSE cluster
           /\ ClusterReturn(out.run)
    /\ UNCHANGED <<template, templateRun>>
    /\ UNCHANGED <<exVars, engVars, agVars>>

\* A HypervisorMachineTemplate is applied.
TemplateApply(spec) ==
    /\ ~template.present
    /\ template' = [NoTemplate EXCEPT !.present = TRUE, !.spec = spec]
    /\ UNCHANGED <<cluster, clusterRun, templateRun, infRun, clDelays>>
    /\ UNCHANGED <<exVars, engVars, agVars>>

\* A deletion request for the template reaches the store.  The object that
\* a run in progress holds is not the stored one any more.
TemplateDelete ==
    /\ template.present
    /\ ~template.deletionTimestamp
    /\ template' = StoredTemplate(APIDelete(template))
    /\ templateRun' = IF templateRun.pc = "idle" THEN templateRun
                      ELSE [templateRun EXCEPT !.stale = TRUE]
    /\ UNCHANGED <<cluster, clusterRun, infRun, clDelays>>
    /\ UNCHANGED <<exVars, engVars, agVars>>

\* the template's Reconcile returns
TemplateReturn(run) ==
    /\ infRun' = run
    /\ templateRun' = NoTemplateRun

\* HypervisorMachineTemplateReconciler.Reconcile, lines 228-269: a run
\* begins with r.Get of the template (line 231); NotFound and any other
\* error end it, else the object read decides the branch.
TemplateGet(getOK) ==
    /\ templateRun.pc = "idle"
    /\ LET path == TemplateBranch(template, getOK)
       IN  IF path \in {"geterror", "notfound"}
           THEN TemplateReturn(TemplateReconcileOutcome(template, NoCluster, getOK, "ok",
                                                        TRUE, TRUE).run)
           ELSE /\ templateRun' = [NoTemplateRun EXCEPT !.pc = path, !.rec = template]
                /\ UNCHANGED infRun
    /\ UNCHANGED <<cluster, template, clusterRun, clDelays>>
    /\ UNCHANGED <<exVars, engVars, agVars>>

\* handleDeletion, lines 281-295: the finalizer is removed from the object
\* the run holds and r.Update writes it (line 289).
TemplateHandleDeletion(updOK) ==
    /\ templateRun.pc = "deletion"
    /\ templateRun.stale => ~updOK
    /\ LET out == TemplateReconcileOutcome(templateRun.rec, NoCluster, TRUE, "ok", TRUE, updOK)
       IN  /\ template' = IF updOK THEN StoredTemplate(out.rec) ELSE template
           /\ TemplateReturn(out.run)
    /\ UNCHANGED <<cluster, clusterRun, clDelays>>
    /\ UNCHANGED <<exVars, engVars, agVars>>

\* Reconcile, lines 246-254: the finalizer is added to the object the run
\* holds and r.Update writes it (line 248).
TemplateAddFinalizer(updOK) ==
    /\ templateRun.pc = "finalizer"
    /\ templateRun.stale => ~updOK
    /\ LET out == TemplateReconcileOutcome(templateRun.rec, NoCluster, TRUE, "ok", TRUE, updOK)
       IN  /\ template' = IF updOK THEN StoredTemplate(out.rec) ELSE template
           /\ TemplateReturn(out.run)
    /\ UNCHANGED <<cluster, clusterRun, clDelays>>
    /\ UNCHANGED <<exVars, engVars, agVars>>

\* validateTemplate, lines 302-325: r.Get of the referenced cluster (line
\* 311).  An error other than NotFound ends the run; a cluster that is
\* missing or not ready sends the run on to its status write, a ready one
\* to validateWithProvider.
TemplateGetCluster(clGet) ==
    /\ templateRun.pc = "validate"
    /\ IF clGet = "error"
       THEN TemplateReturn(TemplateReconcileOutcome(templateRun.rec, cluster, TRUE, clGet,
                                                    TRUE, TRUE).run)
       ELSE /\ templateRun' =
                  [templateRun EXCEPT !.cl = cluster,
                      !.pc = IF cluster.present /\ isClusterReady(cluster)
                             THEN "validateWithProvider" ELSE "updateStatus"]
            /\ UNCHANGED infRun
    /\ UNCHANGED <<cluster, template, clusterRun, clDelays>>
    /\ UNCHANGED <<exVars, engVars, agVars>>

\* validateTemplate, lines 327-339, and Reconcile, lines 257-261:
\* validateWithProvider (lines 343-380) creates the provider client, checks
\* the template and closes the client; Reconcile returns an error that
\* validateTemplate hands back and else goes on to its status write.
TemplateValidateWithProvider(clientOK) ==
    /\ templateRun.pc = "validateWithProvider"
    /\ LET v == validateTemplate(templateRun.rec, templateRun.cl, "ok", clientOK)
       IN  IF v.err # ""
           THEN TemplateReturn(TemplateReconcileOutcome(templateRun.rec, templateRun.cl, TRUE,
                                                        "ok", clientOK, TRUE).run)
           ELSE /\ templateRun' = [templateRun EXCEPT !.pc = "updateStatus",
                                                      !.clientOK = clientOK]
                /\ UNCHANGED infRun
    /\ UNCHANGED <<cluster, template, clusterRun, clDelays>>
    /\ UNCHANGED <<exVars, engVars, agVars>>

\* Reconcile, lines 263-269: updateStatus (lines 413-418) writes the object
\* the run holds, with the condition that validateTemplate set on it, with
\* r.Status().Update (line 417), which the store refuses (updOK = FALSE)
\* when the stored record is not the one the run read, or for a failure of
\* its own; then the run returns.
TemplateUpdateStatus(updOK) ==
    /\ templateRun.pc = "updateStatus"
    /\ templateRun.stale => ~updOK
    /\ LET out == TemplateReconcileOutcome(templateRun.rec, templateRun.cl, TRUE, "ok",
                                           templateRun.clientOK, updOK)
       IN  /\ template' = IF updOK THEN StoredTemplate(out.rec) ELSE template
           /\ TemplateReturn(out.run)
    /\ UNCHANGED <<cluster, clusterRun, clDelays>>
    /\ UNCHANGED <<exVars, engVars, agVars>>

InfNext ==
    \/ ClusterApply
    \/ ClusterRemove
    \/ \E getOK \in BOOLEAN : ClusterGet(getOK)
    \/ \E conn \in ConnOutcomes : ClusterTestConnection(conn)
    \/ \E updOK \in BOOLEAN : ClusterUpdateStatus(updOK)
    \/ \E spec \in TemplateSpecs : TemplateApply(spec)
    \/ TemplateDelete
    \/ \E getOK \in BOOLEAN : TemplateGet(getOK)
    \/ \E updOK \in BOOLEAN : TemplateHandleDeletion(updOK)
    \/ \E updOK \in BOOLEAN : TemplateAddFinalizer(updOK)
    \/ \E clGet \in {"ok", "error"} : TemplateGetCluster(clGet)
    \/ \E clientOK \in BOOLEAN : TemplateValidateWithProvider(clientOK)
    \/ \E updOK \in BOOLEAN : TemplateUpdateStatus(updOK)

SpecInfra == InfInit /\ [][InfNext]_vars

(***************************************************************************)
(* C22: a template is never marked TemplateValid=True, and no provider     *)
(* client is created for its validation, while the referenced              *)
(* HypervisorCluster is missing from the store or its stored Ready         *)
(* condition is not True.                                                  *)
(***************************************************************************)
C22_ClusterReadyGatesValidation ==
    [][/\ (TemplateUpdateStatus(TRUE) /\ HasCondition(template'.conds, "TemplateValid", "True"))
             => HasCondition(cluster.conds, "Ready", "True")
       /\ (\E clientOK \in BOOLEAN : TemplateValidateWithProvider(clientOK))
             => HasCondition(cluster.conds, "Ready", "True")]_vars

(***************************************************************************)
(* C22 as the code has it: the gate is the cluster as the run of the       *)
(* template controller read it.  A run that read the referenced            *)
(* HypervisorCluster as missing or without a Ready condition of status     *)
(* True never marks the template TemplateValid=True (it writes False, or   *)
(* leaves the conditions as they were), does not go on to                  *)
(* validateWithProvider and creates no provider client; and only a run     *)
(* that read the cluster as Ready reaches validateWithProvider.            *)
(***************************************************************************)
C22_ReadyAsReadGatesValidation ==
    [][/\ \A updOK \in BOOLEAN :
            ( /\ ~HasCondition(templateRun.cl.conds, "Ready", "True")
              /\ TemplateUpdateStatus(updOK) ) =>
                /\ \/ ~template'.present
                   \/ template'.conds = template.conds
                   \/ ~HasCondition(template'.conds, "TemplateValid", "True")
                /\ infRun'.created = 0
       /\ \A clGet \in {"ok", "error"} :
            ( /\ ~HasCondition(cluster.conds, "Ready", "True")
              /\ TemplateGetCluster(clGet) ) =>
                templateRun'.pc # "validateWithProvider"
       /\ (\E clientOK \in BOOLEAN : TemplateValidateWithProvider(clientOK))
             => HasCondition(templateRun.cl.conds, "Ready", "True")]_vars

\* a cluster that exists but is not Ready: the template was marked
\* TemplateValid=False with reason ClusterNotReady and no client was created
C22_RejectedForClusterNotReady ==
    /\ cluster.present
    /\ HasCondition(cluster.conds, "Ready", "False")
    /\ template.present
    /\ \E i \in 1..Len(template.conds) :
          /\ template.conds[i].type = "TemplateValid"
          /\ template.conds[i].status = "False"
          /\ template.conds[i].reason = "ClusterNotReady"
    /\ infRun.who = "template" /\ infRun.path = "validate" /\ infRun.created = 0

(***************************************************************************)
(* C23: after each reconcile of a stored HypervisorCluster that tested the *)
(* connection, the stored Ready condition is True if and only if the       *)
(* connection test of that reconcile succeeded.                            *)
(***************************************************************************)
C23_ReadyFollowsEachReconcile ==
    [][\A updOK \in BOOLEAN :
          (ClusterUpdateStatus(updOK) /\ cluster'.present) =>
              (HasCondition(cluster'.conds, "Ready", "True") <=> (clusterRun.conn = "ok"))]_vars

(***************************************************************************)
(* C23 as the code has it: a run of the cluster controller on an existing  *)
(* cluster whose status write succeeds leaves Ready=True exactly when that *)
(* run's connection test succeeded, whatever Ready was before: a failed    *)
(* test leaves Ready=False, a later successful test restores Ready=True.   *)
(* A run whose status write fails returns the error and leaves the stored  *)
(* cluster as it was, and so does a run whose read of the record fails,    *)
(* which tests no connection.                                              *)
(***************************************************************************)
C23_ReadyIffConnectionTestSucceeded ==
    [][/\ \A updOK \in BOOLEAN :
            ClusterUpdateStatus(updOK) =>
                IF updOK
                THEN /\ HasCondition(cluster'.conds, "Ready", "True")
                           <=> (clusterRun.conn = "ok")
                     /\ HasCondition(cluster'.conds, "Ready", "False")
                           <=> (clusterRun.conn # "ok")
                     /\ infRun'.result = "ok"
                ELSE cluster' = cluster /\ infRun'.result = "error"
       /\ ClusterGet(FALSE) =>
             /\ cluster' = cluster
             /\ infRun'.result = "error" /\ infRun'.tested = "none"
             /\ infRun'.created = 0]_vars

\* Ready was False when the run began, the test succeeded, Ready is True again
C23_ReadyRestored ==
    /\ cluster.present
    /\ infRun.who = "cluster" /\ infRun.before = "False" /\ infRun.tested = "ok"
    /\ infRun.result = "ok"
    /\ HasCondition(cluster.conds, "Ready", "True")

(***************************************************************************)
(* C24: while the hypervisor stays unreachable the delay of each retry is  *)
(* longer than the delay of the retry before it.                           *)
(***************************************************************************)
C24_RetryDelayGrows ==
    Len(clDelays) = 2 => clDelays[2] > clDelays[1]

(***************************************************************************)
(* C25: the template's finalizer is cleared only by a run of the template  *)
(* controller that took the deletion branch, and only when the deletion    *)
(* timestamp was already set; the record is removed from the store only    *)
(* when it carries no finalizer, or in the step that clears it.            *)
(***************************************************************************)
C25_FinalizerGatesDeletion ==
    [][/\ (template.present /\ template.finalizer /\ ~template'.finalizer) =>
             /\ template.deletionTimestamp
             /\ templateRun.pc = "deletion"
             /\ TemplateHandleDeletion(TRUE)
             /\ infRun'.who = "template" /\ infRun'.path = "deletion"
       /\ (template.present /\ ~template'.present) =>
             \/ ~template.finalizer
             \/ template.deletionTimestamp /\ infRun'.path = "deletion"]_vars

\* the deletion handler cleared the finalizer of a template that was being
\* deleted, and the store removed the record
C25_RemovedByDeletionHandler ==
    /\ ~template.present
    /\ infRun.who = "template" /\ infRun.path = "deletion" /\ infRun.result = "ok"

(***************************************************************************)
(* C26: the agent's calls are made in the order download, configure, run,  *)
(* RemoveAll of the install path, RemoveAll of the work directory, then    *)
(* the shutdown chain, and nothing is called before the configuration is   *)
(* loaded.  configure is called only after download returned nil, run only *)
(* after configure returned nil, and no directory is removed and no        *)
(* shutdown method is attempted unless run returned nil.  The two          *)
(* removals are best-effort: the shutdown chain starts once both have      *)
(* returned.                                                               *)
(***************************************************************************)
C26_PipelineInOrder ==
    /\ agTrace # <<>> => agPc # "main"
    /\ agErr = "Failed to load config" => agTrace = <<>>
    /\ \A i \in 1..Len(agTrace) :
          LET op == agTrace[i].op
              After(prev, success) ==
                  /\ i > 1
                  /\ agTrace[i - 1].op = prev
                  /\ success => agTrace[i - 1].res = "ok"
          IN  /\ op = "download" => i = 1
              /\ op = "configure" => i = 2 /\ After("download", TRUE)
              /\ op = "run" => i = 3 /\ After("configure", TRUE)
              /\ op = "removeInstall" => i = 4 /\ After("run", TRUE)
              /\ op = "removeWork" => i = 5 /\ After("removeInstall", FALSE)
              /\ op = "sleep" => i = 6 /\ After("removeWork", FALSE)
              /\ op \in Strategies \cup {"sync", "reboot"} => i > 6
    /\ agDirs # {"install", "work"} =>
          \E i \in 1..Len(agTrace) : agTrace[i].op = "run" /\ agTrace[i].res = "ok"

\* the whole pipeline ran: both directories removed and the machine powered off
C26_PipelineCompleted ==
    /\ agPc = "exited" /\ agExit = "exit 0"
    /\ agDirs = {} /\ agPowerOff
    /\ Len(agTrace) >= 7

(***************************************************************************)
(* C27: the configure script is executed at most once, and exactly once in *)
(* every execution that got past the download; its arguments are --url     *)
(* with the registration URL, --token with the runner token, --name with   *)
(* the runner name, --labels with the labels joined by commas, --work with *)
(* the work directory (the default when none is configured), then          *)
(* --unattended and --ephemeral.                                           *)
(***************************************************************************)
C27_ConfigureOnceWithFlags ==
    LET calls == {i \in 1..Len(agTrace) : agTrace[i].op = "configure"}
    IN  /\ Cardinality(calls) <= 1
        /\ (agPc \notin {"main", "download", "configure"}
              /\ agTrace # <<>> /\ agTrace[1].res = "ok") => Cardinality(calls) = 1
        /\ \A i \in calls :
              LET a == agTrace[i].args
                  n == Len(agCfg.labels)
              IN  /\ Len(a) = 12
                  /\ a[1] = "--url" /\ a[2] = agCfg.url
                  /\ a[3] = "--token" /\ a[4] = agCfg.token
                  /\ a[5] = "--name" /\ a[6] = agCfg.name
                  /\ a[7] = "--labels"
                  /\ Len(a[8]) = (IF n = 0 THEN 0 ELSE 2 * n - 1)
                  /\ \A k \in 1..n : a[8][2 * k - 1] = agCfg.labels[k]
                  /\ \A k \in 1..(n - 1) : a[8][2 * k] = ","
                  /\ a[9] = "--work"
                  /\ a[10] = (IF agCfg.workDir = "" THEN "/tmp/runner-work" ELSE agCfg.workDir)
                  /\ a[11] = "--unattended"
                  /\ a[12] = "--ephemeral"

\* an execution with two labels and no work directory configured ran to its
\* end after configuring the runner
C27_ConfiguredWithTwoLabels ==
    /\ agPc = "exited" /\ agExit = "exit 0"
    /\ Len(agCfg.labels) = 2 /\ agCfg.workDir = ""
    /\ \E i \in 1..Len(agTrace) : agTrace[i].op = "configure" /\ agTrace[i].res = "ok"

(***************************************************************************)
(* C28: the exit status names the outcome: 0 after normal completion, 1    *)
(* after a configuration error, 2 after a download or installation error,  *)
(* 3 after a runner configuration error, 4 after a runner execution error. *)
(***************************************************************************)
C28_ExitCodeNamesOutcome ==
    agPc = "exited" =>
        /\ agErr = "" => agExit = "exit 0"
        /\ agErr = "Failed to load config" => agExit = "exit 1"
        /\ agErr = "failed to download runner" => agExit = "exit 2"
        /\ agErr = "failed to configure runner" => agExit = "exit 3"
        /\ agErr = "failed to run runner" => agExit = "exit 4"

(***************************************************************************)
(* C30: every attempt of the syscall strategy calls Sync and then the      *)
(* power-off syscall, and the strategy fails exactly when the power-off    *)
(* syscall returned an error.                                              *)
(***************************************************************************)
C30_SyncBeforePowerOff ==
    \A i \in 1..Len(agTrace) :
        /\ agTrace[i].op = "reboot" => i > 1 /\ agTrace[i - 1].op = "sync"
        /\ agTrace[i].op = "syscall" =>
              /\ i > 2
              /\ agTrace[i - 2].op = "sync"
              /\ agTrace[i - 1].op = "reboot"
              /\ (agTrace[i].res = "failed") <=> (agTrace[i - 1].res = "failed")

\* the power-off syscall failed after Sync, and the chain moved on
C30_PowerOffSyscallFailed ==
    \E i \in 2..Len(agTrace) :
        /\ agTrace[i].op = "reboot" /\ agTrace[i].res = "failed"
        /\ agTrace[i - 1].op = "sync"
        /\ \E j \in (i + 1)..Len(agTrace) : agTrace[j].op = "sysrq"

(***************************************************************************)
(* C29: when the monitor's loop reaches a listed claim that has a VM       *)
(* reference and is not Terminating, and the VM's power state is reported  *)
(* as stopped or shut down, the claim is in the work queue when the        *)
(* iteration has dealt with it.                                            *)
(***************************************************************************)
C29_StoppedVMIsEnqueued ==
    [][\A c \in Claims :
         ( /\ listing[c] # NoVM
           /\ IsShutdownState(GetVMStatus(vm, listing[c], "none"))
           /\ MonitorVisit(c, "none") )
            => c \in queue']_vars

(***************************************************************************)
(* C31: the command strategy executes sudo shutdown -h now, shutdown -h    *)
(* now, sudo poweroff, poweroff, sudo halt -p, halt -p, sudo systemctl     *)
(* poweroff, systemctl poweroff in this order: the k-th command executed   *)
(* is the k-th of the list, a command is executed only after every         *)
(* command before it failed, and none is executed after one succeeded.     *)
(***************************************************************************)
C31_CommandsInListedOrder ==
    LET cmds == SelectSeq(agTrace, LAMBDA a : a.op = "command")
        Listed(k) ==
            CASE k = 1 -> <<"sudo", "shutdown", "-h", "now">>
              [] k = 2 -> <<"shutdown", "-h", "now">>
              [] k = 3 -> <<"sudo", "poweroff">>
              [] k = 4 -> <<"poweroff">>
              [] k = 5 -> <<"sudo", "halt", "-p">>
              [] k = 6 -> <<"halt", "-p">>
              [] k = 7 -> <<"sudo", "systemctl", "poweroff">>
              [] k = 8 -> <<"systemctl", "poweroff">>
    IN  /\ Len(cmds) <= 8
        /\ \A k \in 1..Len(cmds) :
              /\ cmds[k].args = Listed(k)
              /\ \A j \in 1..(k - 1) : cmds[j].res = "failed"

\* seven commands failed and the last of the list, systemctl poweroff, ran
C31_LastCommandSucceeded ==
    \E i \in 1..Len(agTrace) :
        /\ agTrace[i].op = "command" /\ agTrace[i].res = "ok"
        /\ agTrace[i].args = <<"systemctl", "poweroff">>
        /\ Cardinality({j \in 1..(i - 1) : agTrace[j].op = "command"}) = 7

\* the condition that a validation of template tpl has to produce when the
\* cluster record was read: status, reason and message
ExpectedTemplateValid(tpl, cl, clientOK) ==
    IF ~cl.present
    THEN <<"False", "ClusterNotFound", "Referenced HypervisorCluster not found">>
    ELSE IF ~HasCondition(cl.conds, "Ready", "True")
    THEN <<"False", "ClusterNotReady", "Referenced HypervisorCluster is not ready">>
    ELSE IF ~clientOK
    THEN <<"False", "ValidationFailed", "failed to create provider client">>
    ELSE IF tpl.spec = "bad-template-id"
    THEN <<"False", "ValidationFailed", "invalid Proxmox template ID">>
    ELSE IF tpl.spec = "bad-cpu"
    THEN <<"False", "ValidationFailed", "invalid CPU specification">>
    ELSE <<"True", "ValidationSucceeded", "Template validation succeeded">>

\* the run of the template controller in progress has validated: it is at
\* its status write
Validated == templateRun.pc = "updateStatus"

(***************************************************************************)
(* C32: a validation that finds the cluster missing, not Ready, or the     *)
(* provider validation failing returns no error (the run goes on to its    *)
(* status write), leaves TemplateValid = False with reason                 *)
(* ClusterNotFound, ClusterNotReady or ValidationFailed respectively, and  *)
(* asks for a requeue after 5 minutes; a successful validation asks for    *)
(* the same 5 minutes.  (The run returns an error only when the read of    *)
(* the cluster fails or the status write that follows the validation       *)
(* fails.)                                                                 *)
(***************************************************************************)
C32_ValidationFailureIsRequeuedNotReturned ==
    [][/\ (Validated /\ TemplateUpdateStatus(TRUE)) =>
             LET e == ExpectedTemplateValid(templateRun.rec, templateRun.cl,
                                            templateRun.clientOK)
             IN  /\ infRun'.result = "ok"
                 /\ infRun'.requeueAfter = 5
                 /\ \E i \in 1..Len(template'.conds) :
                       /\ template'.conds[i].type = "TemplateValid"
                       /\ template'.conds[i].status = e[1]
                       /\ template'.conds[i].reason = e[2]
       /\ (\E clientOK \in BOOLEAN : TemplateValidateWithProvider(clientOK)) =>
             (templateRun'.pc = "updateStatus" /\ infRun' = infRun)
       /\ (TemplateGetCluster("ok") /\ Validated') => infRun' = infRun]_vars

\* the provider validation of a template with a bad template id failed
\* against a Ready cluster: TemplateValid=False/ValidationFailed, requeue 5
C32_ProviderValidationFailed ==
    /\ template.present /\ template.spec = "bad-template-id"
    /\ HasCondition(cluster.conds, "Ready", "True")
    /\ infRun.who = "template" /\ infRun.path = "validate"
    /\ infRun.result = "ok" /\ infRun.requeueAfter = 5 /\ infRun.created = 1
    /\ \E i \in 1..Len(template.conds) : template.conds[i].reason = "ValidationFailed"

(***************************************************************************)
(* C33: a template's status never holds more than one TemplateValid        *)
(* condition, and after every validation whose status was written it holds *)
(* exactly one, with the status, reason and message of that validation.    *)
(***************************************************************************)
C33_OneTemplateValidCondition ==
    [][/\ Cardinality({i \in 1..Len(template'.conds) :
                          template'.conds[i].type = "TemplateValid"}) <= 1
       /\ (Validated /\ TemplateUpdateStatus(TRUE)) =>
             LET e == ExpectedTemplateValid(templateRun.rec, templateRun.cl,
                                            templateRun.clientOK)
                 valid == {i \in 1..Len(template'.conds) :
                              template'.conds[i].type = "TemplateValid"}
             IN  /\ Cardinality(valid) = 1
                 /\ \A i \in valid :
                       template'.conds[i] = CondMsg("TemplateValid", e[1], e[2], e[3])]_vars

\* a template that had TemplateValid=True was validated again and its one
\* condition now reports the failure
C33_ConditionReplaced ==
    /\ template.present
    /\ infRun.who = "template" /\ infRun.path = "validate"
    /\ infRun.before = "True" /\ infRun.result = "ok"
    /\ Len(template.conds) = 1
    /\ template.conds[1].status = "False"

(***************************************************************************)
(* C34: a pipeline step is called only when the configured method is       *)
(* runner-token and, with SPIFFE enabled, a join token or a SPIFFE ID is   *)
(* configured.  With SPIFFE enabled and neither configured the agent exits *)
(* with "SPIFFE attestation failed" before any download; with method       *)
(* join-token or an unknown method it exits without calling anything.      *)
(***************************************************************************)
C34_PipelineOnlyForRunnerToken ==
    LET attested == ~agCfg.spiffe.enabled
                        \/ agCfg.spiffe.joinToken # "" \/ agCfg.spiffe.spiffeID # ""
    IN  /\ (agTrace # <<>> \/ agPc \in RunSteps) =>
              (agCfg.method = "runner-token" /\ attested)
        /\ (agCfg.method # "runner-token" \/ ~attested) =>
              /\ agDirs = {"install", "work"} /\ ~agPowerOff
              /\ agPc \in {"main", "exited"}
              /\ agPc = "exited" => agExit = "exit 1"
        /\ (agPc = "exited" /\ agErr = "SPIFFE attestation failed") =>
              (agCfg.method = "runner-token" /\ ~attested /\ agTrace = <<>>)

\* SPIFFE enabled with neither a join token nor a SPIFFE ID: the agent
\* stopped before the download
C34_AttestationFailed ==
    /\ agPc = "exited" /\ agErr = "SPIFFE attestation failed"
    /\ agCfg.spiffe.enabled /\ agTrace = <<>>

(***************************************************************************)
(* The agent's process with its download step in full: between the call of *)
(* downloadGitHubRunner by Run (main.go line 157) and its return the       *)
(* request and the extraction loop run, and Run goes on with what          *)
(* downloadGitHubRunner returned.                                          *)
(***************************************************************************)
\* what downloadGitHubRunner returns to Run, in the terms of StepOutcomes:
\* "download failed" when no response body was obtained (the request could
\* not be built or sent, or was answered with a status other than 200)
DownloadResult(stage, err) ==
    IF stage = "ok" THEN "ok"
    ELSE IF err \in {"failed to create request", "failed to download runner",
                     "failed to download runner: HTTP"}
    THEN "download failed"
    ELSE "extract failed"

\* downloadGitHubRunner at work
PipeDownloading ==
    /\ agPc = "download"
    /\ ExNext

\* downloadGitHubRunner returns to Run
PipeDownloadReturns ==
    /\ agPc = "download"
    /\ exStage \in {"ok", "error"}
    /\ AgRunStep(DownloadResult(exStage, exErr))

\* configureRunner or runAndMonitor is called and returns
PipeRunStep(res) ==
    /\ agPc \in {"configure", "run"}
    /\ AgRunStep(res)

PipeNext ==
    \/ \E loaded \in BOOLEAN : AgMain(loaded)
    \/ PipeDownloading
    \/ PipeDownloadReturns
    \/ \E res \in {"ok", "failed"} : PipeRunStep(res)
    \/ \E ok \in BOOLEAN : AgRemoveAll(ok)
    \/ AgSleep
    \/ \E ok \in BOOLEAN : AgStrategy(ok)
    \/ \E ok \in BOOLEAN : AgCommand(ok)
    \/ AgReturn

SpecPipeline == ExInit /\ [][PipeNext]_vars

(***************************************************************************)
(* C35: when the download request fails or answers with a status other     *)
(* than 200, downloadGitHubRunner returns the error with no archive entry  *)
(* read, no directory created and no file opened, and the agent exits      *)
(* with "failed to download runner" without calling configure or run.      *)
(***************************************************************************)
C35_FailedDownloadExtractsNothing ==
    exErr \in {"failed to create request", "failed to download runner",
               "failed to download runner: HTTP"} =>
        /\ exStage = "error"
        /\ exCount = 0 /\ exTarget = NoPath
        /\ exDirs = {} /\ exFiles = {}
        /\ agPc \in {"download", "exited"}
        /\ \A i \in 1..Len(agTrace) : agTrace[i].op \notin {"configure", "run"}
        /\ agPc = "exited" =>
              /\ agErr = "failed to download runner"
              /\ agTrace = <<[op |-> "download", n |-> 0, res |-> "download failed",
                              args |-> <<>>]>>

\* the server answered with a status other than 200 and the agent has exited
C35_Non200AndExited ==
    /\ exErr = "failed to download runner: HTTP"
    /\ agPc = "exited" /\ agExit = "exit 1"

(***************************************************************************)
(* C36: the stored status of a template reports TemplateAvailable = true   *)
(* or ValidationStatus = "Valid" only together with TemplateValid = True.  *)
(***************************************************************************)
C36_AvailableOnlyWhenValid ==
    (template.present /\ (template.available \/ template.validationStatus = "Valid")) =>
        HasCondition(template.conds, "TemplateValid", "True")

(***************************************************************************)
(* C39: a run of the template controller on a template without the         *)
(* finalizer (and not being deleted) takes the finalizer branch: it        *)
(* creates no provider client and leaves the status as it was; when its    *)
(* update goes through, the finalizer is set and an immediate requeue is   *)
(* requested.  So a stored template with a condition carries the           *)
(* finalizer.                                                              *)
(***************************************************************************)
C39_NoValidationWithoutFinalizer ==
    [][/\ (template.present /\ ~template.finalizer /\ TemplateGet(TRUE)) =>
             (templateRun'.pc = "finalizer" /\ infRun' = infRun)
       /\ \A updOK \in BOOLEAN :
            TemplateAddFinalizer(updOK) =>
                /\ infRun'.path = "finalizer"
                /\ infRun'.created = 0 /\ infRun'.requeueAfter = 0
                /\ template'.conds = template.conds
                /\ template'.available = template.available
                /\ template'.validationStatus = template.validationStatus
                /\ IF updOK
                   THEN template'.finalizer /\ infRun'.result = "requeue"
                   ELSE template' = template /\ infRun'.result = "error"
       /\ (template'.present /\ template'.conds # <<>>) => template'.finalizer]_vars

\* the first run on a new template added the finalizer and asked for a
\* requeue; the template has no condition yet
C39_FinalizerAddedFirst ==
    /\ template.present /\ template.finalizer /\ template.conds = <<>>
    /\ infRun.who = "template" /\ infRun.path = "finalizer" /\ infRun.result = "requeue"

(***************************************************************************)
(* C40: a run of either controller closes every provider client it         *)
(* created, once, before it returns: one client is created and closed when *)
(* the cluster's connection test got as far as CreateClient succeeding     *)
(* (whether TestConnection then failed or not) and when a template         *)
(* validation reached the provider with a working factory (whether the     *)
(* validation then failed or not); otherwise none is created and none is   *)
(* closed.                                                                 *)
(***************************************************************************)
C40_ClientClosedOnce ==
    [][/\ infRun'.created \in {0, 1}
       /\ infRun'.closed = infRun'.created
       /\ \A updOK \in BOOLEAN :
            ClusterUpdateStatus(updOK) =>
                infRun'.created = (IF clusterRun.conn \in {"ok", "connection"} THEN 1 ELSE 0)
       /\ \A updOK \in BOOLEAN :
            TemplateUpdateStatus(updOK) =>
                infRun'.created =
                    (IF /\ HasCondition(templateRun.cl.conds, "Ready", "True")
                        /\ templateRun.clientOK
                     THEN 1 ELSE 0)
       /\ ( /\ \/ \E getOK \in BOOLEAN : ClusterGet(getOK) \/ TemplateGet(getOK)
               \/ \E updOK \in BOOLEAN : TemplateHandleDeletion(updOK)
                                            \/ TemplateAddFinalizer(updOK)
               \/ TemplateGetCluster("error")
            /\ infRun' # infRun ) => infRun'.created = 0]_vars

\* a connection test that failed after the client was created: the client
\* was closed
C40_ClosedAfterFailedTest ==
    /\ infRun.who = "cluster" /\ infRun.tested = "failed"
    /\ infRun.created = 1 /\ infRun.closed = 1

(***************************************************************************)
(* C37: when download (extraction included), configure or run has failed,  *)
(* the agent exits at once: its calls are the steps of Run up to the       *)
(* failed one, no directory is removed, there is no sleep, no Sync, no     *)
(* power-off syscall, no trigger-file write, no power-state write and no   *)
(* shutdown command.                                                       *)
(***************************************************************************)
C37_NoCleanupAfterFailedStep ==
    (\E i \in 1..Len(agTrace) : agTrace[i].op \in RunSteps /\ agTrace[i].res # "ok") =>
        /\ agPc = "exited" /\ agExit = "exit 1"
        /\ agDirs = {"install", "work"}
        /\ ~agPowerOff
        /\ \A i \in 1..Len(agTrace) :
              /\ agTrace[i].op \in {"download", "configure", "run"}
              /\ agTrace[i].res # "ok" => i = Len(agTrace)

\* the runner was downloaded and configured, and the run script failed
C37_RunFailed ==
    /\ Len(agTrace) = 3
    /\ agTrace[3].op = "run" /\ agTrace[3].res = "failed"
    /\ exStage = "ok"
    /\ agPc = "exited"

(***************************************************************************)
(* C38: an archive entry that is neither a directory nor a regular file    *)
(* and passes the path check is skipped: no directory and no file is       *)
(* created, and the extraction goes on without an error.  Directories and  *)
(* files come into being only through directory and regular-file entries.  *)
(***************************************************************************)
C38_OnlyDirsAndFilesAreWritten ==
    [][/\ \A n \in EntryNames, f \in FsFaults :
            (PathCheck(installPathOf(exInstall), n) /\ ExtractEntry(n, "other", f)) =>
                /\ exDirs' = exDirs /\ exFiles' = exFiles
                /\ exStage' = "extracting" /\ exErr' = ""
       /\ (exDirs' # exDirs \/ exFiles' # exFiles) =>
             /\ exCount' = exCount + 1
             /\ exType' \in {"dir", "reg"}]_vars

\* the archive held only entries of other types: all were read, nothing was
\* written, and the extraction ended without an error
C38_LinksSkipped ==
    /\ exStage = "ok" /\ exErr = ""
    /\ exCount = MaxEntries /\ exType = "other"
    /\ exDirs = {} /\ exFiles = {}

====
